---------------------------- MODULE Spec2Model ----------------------------
(***************************************************************************)
(* A model of FLIP.js: the FLIP helper (src/src/core.js), its player       *)
(* registry and group coordinator, and the rAF and CSS players             *)
(* (src/unnamed/part_002, src/unnamed/part_001).                           *)
(*                                                                         *)
(* JavaScript runs one handler at a time, so every action below is one     *)
(* whole call of the public API, or one whole callback delivered by the    *)
(* browser (an animation frame, a DOM event), or one step of the           *)
(* environment (the clock advancing, the page changing its layout).        *)
(***************************************************************************)
EXTENDS Integers, Sequences, FiniteSets, TLC

VARIABLES
  now,        \* window.performance.now(), in milliseconds
  players_,   \* FLIP.players_, the static player registry
  flips,      \* the FLIP helpers: flips[i] is the instance on element i
  els,        \* the elements: class list, inline style, event listeners
  raf,        \* callbacks handed to requestAnimationFrame, oldest first
  out,        \* the last call: what was called, what it threw or returned, and
              \* the members whose callback a group call entered, in order
  plays,      \* how many times a player's play_ has started an animation
  done,       \* per play, how often its completion routine has run
  signals,    \* per element, how many flipComplete events were dispatched
  warnings,   \* how many console.warn lines extend() has written
  heard       \* the latest flipComplete event, and what its listeners found

vars == <<now, players_, flips, els, raf, out, plays, done, signals, warnings, heard>>

-----------------------------------------------------------------------------
(* Bounds of the model.                                                    *)

MaxClock == 2      \* the clock stops advancing here
MaxPlays == 2      \* at most this many animations are started
MaxWarnings == 3   \* extend() is not called once it has warned this often

-----------------------------------------------------------------------------
(* JavaScript values.                                                      *)

(* Every JavaScript value is a record, so that any two can be compared:    *)
(* undefined, null, a string, an array, a number, a function.             *)
Undefined == [t |-> "undefined"]
Null      == [t |-> "null"]
Absent    == [t |-> "absent"]      \* an option the caller did not give at all
Str(s)    == [t |-> "string", v |-> s]
Arr(a)    == [t |-> "array", v |-> a]
Fn(f)     == [t |-> "function", f |-> f]
Obj(g)    == [t |-> "object", getRatio |-> g]   \* an object; g is its getRatio member
IsString(x)   == "t" \in DOMAIN x /\ x.t = "string"
IsArray(x)    == "t" \in DOMAIN x /\ x.t = "array"
IsFunction(x) == "t" \in DOMAIN x /\ x.t = "function"

None == "none"     \* no exception was thrown

(* Numbers are exact rationals [n |-> numerator, d |-> denominator > 0] in *)
(* lowest terms, with the three IEEE specials as denominators of zero:     *)
(* 1/0 = Infinity, -1/0 = -Infinity, 0/0 = NaN.                            *)

Abs(x) == IF x < 0 THEN -x ELSE x
Sgn(x) == IF x < 0 THEN -1 ELSE IF x > 0 THEN 1 ELSE 0

RECURSIVE GCD(_, _)
GCD(a, b) == IF b = 0 THEN a ELSE GCD(b, a % b)

Norm(n, d) ==
  IF d = 0 THEN [n |-> Sgn(n), d |-> 0]
  ELSE LET s == IF d < 0 THEN -1 ELSE 1
           g == GCD(Abs(n), Abs(d))
       IN  [n |-> (s * n) \div g, d |-> (s * d) \div g]

Num(k)     == [n |-> k, d |-> 1]
Frac(a, b) == Norm(a, b)
Zero       == Num(0)
One        == Num(1)
NaN        == [n |-> 0, d |-> 0]
Infinity   == [n |-> 1, d |-> 0]
IsNaN(a)    == a.d = 0 /\ a.n = 0
IsFinite(a) == a.d > 0

Neg(a) == [n |-> -a.n, d |-> a.d]

Add(a, b) ==
  IF IsNaN(a) \/ IsNaN(b) THEN NaN
  ELSE IF a.d = 0 /\ b.d = 0 THEN (IF a.n = b.n THEN a ELSE NaN)
  ELSE IF a.d = 0 THEN a
  ELSE IF b.d = 0 THEN b
  ELSE Norm(a.n * b.d + b.n * a.d, a.d * b.d)

Sub(a, b) == Add(a, Neg(b))

Mul(a, b) ==
  IF IsNaN(a) \/ IsNaN(b) THEN NaN
  ELSE IF a.d = 0 \/ b.d = 0
    THEN (IF a.n = 0 \/ b.n = 0 THEN NaN ELSE [n |-> Sgn(a.n) * Sgn(b.n), d |-> 0])
  ELSE Norm(a.n * b.n, a.d * b.d)

Div(a, b) ==
  IF IsNaN(a) \/ IsNaN(b) THEN NaN
  ELSE IF b.d = 0 THEN (IF a.d = 0 THEN NaN ELSE Zero)
  ELSE IF a.d = 0 THEN [n |-> a.n * (IF b.n < 0 THEN -1 ELSE 1), d |-> 0]
  ELSE Norm(a.n * b.d, a.d * b.n)

Less(a, b) ==
  IF IsNaN(a) \/ IsNaN(b) THEN FALSE
  ELSE IF a.d = 0 /\ b.d = 0 THEN a.n < b.n
  ELSE IF a.d = 0 THEN a.n < 0
  ELSE IF b.d = 0 THEN b.n > 0
  ELSE a.n * b.d < b.n * a.d

MathMax(a, b) == IF IsNaN(a) \/ IsNaN(b) THEN NaN ELSE IF Less(a, b) THEN b ELSE a
MathMin(a, b) == IF IsNaN(a) \/ IsNaN(b) THEN NaN ELSE IF Less(b, a) THEN b ELSE a

-----------------------------------------------------------------------------
(* The page: elements, their layout and their computed opacity.            *)

Rect(l, t, w, h) == [left |-> Num(l), top |-> Num(t), width |-> Num(w), height |-> Num(h)]

(* What the layout engine renders for an element that carries no class:    *)
(* the two layouts of the spec's worked example, and an element collapsed  *)
(* to zero width.                                                          *)
Poses == <<
  [rect |-> Rect(0, 0, 100, 100),   opacity |-> One],
  [rect |-> Rect(50, 50, 200, 200), opacity |-> Frac(1, 2)],
  [rect |-> Rect(10, 20, 0, 30),    opacity |-> Zero] >>

(* The style sheet: each class moves its own element to the right, and     *)
(* pushes every other element down, by its own distinct amount, so that a  *)
(* measured rectangle tells which classes were on the page when it was     *)
(* taken.                                                                  *)
ClassShift(c) ==
  CASE c = "a" -> 1 [] c = "b" -> 2 [] c = "c" -> 4 [] c = "end" -> 8
    [] c = "flip-animating" -> 0 [] OTHER -> 16

RECURSIVE SumShift(_)
SumShift(cs) ==
  IF cs = {} THEN 0
  ELSE LET c == CHOOSE x \in cs : TRUE IN ClassShift(c) + SumShift(cs \ {c})

RECURSIVE SumOthers(_, _, _)
SumOthers(e, i, k) ==
  IF k > Len(e) THEN 0
  ELSE (IF k = i THEN 0 ELSE SumShift(e[k].classList)) + SumOthers(e, i, k + 1)

(* element.getBoundingClientRect() and getComputedStyle(element).opacity   *)
getBoundingClientRect(w, i) ==
  LET r == Poses[w.page[i]].rect
  IN  [r EXCEPT !.left = Add(@, Num(SumShift(w.els[i].classList))),
                !.top  = Add(@, Num(SumOthers(w.els, i, 1)))]

getComputedOpacity(w, i) == Poses[w.page[i]].opacity

Unset == [t |-> "unset"]    \* an inline style property that is not set ('')

NoStyle == [transformOrigin |-> Unset, transform |-> Unset, opacity |-> Unset,
            willChange |-> Unset, transitionProperty |-> Unset,
            transitionTimingFunction |-> Unset, transitionDuration |-> Unset,
            transitionDelay |-> Unset]

NewElement == [classList |-> {}, style |-> NoStyle, listeners |-> <<>>]

-----------------------------------------------------------------------------
(* The player registry (FLIP.extend) and the players.                      *)

(* A player object: which object it is, and the names of its own           *)
(* enumerable properties, all of them functions.                           *)
rAFPlayer    == [id |-> "rAF",  keys |-> {"play_", "update_"}]
CSSPlayer    == [id |-> "CSS",  keys |-> {"play_"}]
CustomPlayer == [id |-> "custom", keys |-> {"update_"}]    \* has no play_
GSAPPlayer   == [id |-> "GSAP", keys |-> {"play_"}]

(* Names every object inherits from Object.prototype; the value found      *)
(* there is a function, which has no own enumerable property.              *)
InheritedNames == {"toString"}
Inherited(name) == [id |-> "Object.prototype." \o name, keys |-> {}]

(* obj[name] on the registry object                                        *)
Lookup(reg, name) ==
  IF name \in DOMAIN reg THEN reg[name]
  ELSE IF name \in InheritedNames THEN Inherited(name)
  ELSE Undefined

(* faulty variant: a name that is taken is not registered again *)
extendUnlessTaken(reg, warned, name, player) ==
  LET r0 == IF reg = Undefined THEN <<>> ELSE reg
      w1 == IF Lookup(r0, name) # Undefined THEN 1 ELSE 0
      w2 == IF "play_" \notin player.keys THEN 1 ELSE 0
  IN  [players_ |-> IF w1 = 1 THEN r0
                    ELSE [k \in DOMAIN r0 \cup {name} |-> IF k = name THEN player ELSE r0[k]],
       warnings |-> warned + w1 + w2]

extend(reg, warned, name, player) ==
  LET r0 == IF reg = Undefined THEN <<>> ELSE reg
      w1 == IF Lookup(r0, name) # Undefined THEN 1 ELSE 0
      w2 == IF "play_" \notin player.keys THEN 1 ELSE 0
  IN  [players_ |-> [k \in DOMAIN r0 \cup {name} |-> IF k = name THEN player ELSE r0[k]],
       warnings |-> warned + w1 + w2]

-----------------------------------------------------------------------------
(* The constructor.                                                        *)

El(i) == [t |-> "element", id |-> i]

defaults == [duration |-> Num(330), delay |-> Zero, easing |-> Fn("linear"),
             transform |-> TRUE, opacity |-> TRUE, play |-> "rAF"]

(* Object.assign({}, defaults, options)                                    *)
Assign(a, b) == [k \in DOMAIN a \cup DOMAIN b |-> IF k \in DOMAIN b THEN b[k] ELSE a[k]]

Member(o, k) == IF k \in DOMAIN o THEN o[k] ELSE Undefined

NewSnapshot == [layout |-> Null, opacity |-> Zero]
NewInvert   == [x |-> Zero, y |-> Zero, sx |-> One, sy |-> One, a |-> Zero]

(* faulty variant of the next: the functions bound are those of the rAF    *)
(* player, whichever player was looked up                                  *)
Constructed_default_player(config, player) ==
  [element_ |-> config.element,
   first_ |-> NewSnapshot,
   last_ |-> NewSnapshot,
   invert_ |-> NewInvert,
   start_ |-> Zero,
   duration_ |-> config.duration,
   delay_ |-> config.delay,
   easing_ |-> IF IsFunction(config.easing) THEN config.easing ELSE config.easing.getRatio,
   updateTransform_ |-> config.transform,
   updateOpacity_ |-> config.opacity,
   bound |-> [fn \in player.keys |-> "rAF"]]

Constructed(config, player) ==
  [element_ |-> config.element,
   first_ |-> NewSnapshot,
   last_ |-> NewSnapshot,
   invert_ |-> NewInvert,
   start_ |-> Zero,
   duration_ |-> config.duration,
   delay_ |-> config.delay,
   easing_ |-> IF IsFunction(config.easing) THEN config.easing ELSE config.easing.getRatio,
   updateTransform_ |-> config.transform,
   updateOpacity_ |-> config.opacity,
   bound |-> [fn \in player.keys |-> player.id]]

(* faulty variant of the next: an easing that is no function and has no    *)
(* getRatio is kept as it is                                               *)
FLIP_keeps_easing(reg, options) ==
  LET config == Assign(defaults, options)
      easing == config.easing
      player == Lookup(reg, config.play)
      Fail(e) == [err |-> e, flip |-> Undefined]
  IN  IF Member(config, "element") = Undefined
        THEN Fail("Element must be provided.")
      ELSE IF ~IsFunction(easing) /\ easing \in {Undefined, Null}
        THEN Fail("TypeError: cannot read property getRatio")
      ELSE IF reg = Undefined
        THEN Fail("TypeError: cannot read property of undefined players_")
      ELSE IF player = Undefined
        THEN Fail("Unknown player type")
      ELSE IF ~IsFunction(easing) /\ Member(easing, "getRatio") = Undefined
        THEN [err |-> None,
              flip |-> Constructed([config EXCEPT !.easing = Obj(easing)], player)]
      ELSE [err |-> None, flip |-> Constructed(config, player)]

(* new FLIP(options): what it throws, and the instance it yields           *)
FLIP(reg, options) ==
  LET config == Assign(defaults, options)
      easing == config.easing
      player == Lookup(reg, config.play)
      Fail(e) == [err |-> e, flip |-> Undefined]
  IN  IF Member(config, "element") = Undefined
        THEN Fail("Element must be provided.")
      ELSE IF ~IsFunction(easing) /\ easing \in {Undefined, Null}
        THEN Fail("TypeError: cannot read property getRatio")
      ELSE IF ~IsFunction(easing) /\ Member(easing, "getRatio") = Undefined
        THEN Fail("Easing function must be provided.")
      ELSE IF reg = Undefined
        THEN Fail("TypeError: cannot read property of undefined players_")
      ELSE IF player = Undefined
        THEN Fail("Unknown player type")
      ELSE [err |-> None, flip |-> Constructed(config, player)]

-----------------------------------------------------------------------------
(* The methods of a FLIP helper.  Each takes the world w (the variables    *)
(* as one record, with err = the exception thrown so far) and the index i  *)
(* of the helper, and yields the world it leaves behind.  A throw keeps    *)
(* every write made before it.                                             *)

Throw(w, e) == [w EXCEPT !.err = e]

addClass(w, i, className) ==
  IF ~IsString(className) THEN w
  ELSE [w EXCEPT !.els[i].classList = @ \cup {className.v}]

removeClass(w, i, className) ==
  IF ~IsString(className) THEN w
  ELSE [w EXCEPT !.els[i].classList = @ \ {className.v}]

first(w, i) ==
  [w EXCEPT !.flips[i].first_ =
     [layout |-> getBoundingClientRect(w, i), opacity |-> getComputedOpacity(w, i)]]

(* faulty variant: the element is measured before the class is added *)
last_then_class(w, i, lastClassName) ==
  LET w1 == [w EXCEPT !.flips[i].last_ =
               [layout |-> getBoundingClientRect(w, i), opacity |-> getComputedOpacity(w, i)]]
  IN  IF lastClassName # Undefined THEN addClass(w1, i, lastClassName) ELSE w1

last(w, i, lastClassName) ==
  LET w1 == IF lastClassName # Undefined THEN addClass(w, i, lastClassName) ELSE w
  IN  [w1 EXCEPT !.flips[i].last_ =
         [layout |-> getBoundingClientRect(w1, i), opacity |-> getComputedOpacity(w1, i)]]

(* The template literal written to style.transform, and join(',')          *)
Transform(x, y, sx, sy) == [t |-> "translate-scale", x |-> x, y |-> y, sx |-> sx, sy |-> sy]
Join(list) == IF list = <<>> THEN Unset ELSE [t |-> "list", v |-> list]

NoFirst == "You must call first() before invert()"
NoLast  == "You must call last() before invert()"

(* faulty variant: the two checks in the other order *)
InvertCheckLastFirst(f) ==
  IF f.last_.layout = Null THEN NoLast
  ELSE IF f.first_.layout = Null THEN NoFirst
  ELSE None

(* the two checks invert() opens with: what it throws *)
InvertCheck(f) ==
  IF f.first_.layout = Null THEN NoFirst
  ELSE IF f.last_.layout = Null THEN NoLast
  ELSE None

(* faulty variant: the translation taken from last to first *)
InvertValuesReversed(f) ==
  [x  |-> Sub(f.last_.layout.left, f.first_.layout.left),
   y  |-> Sub(f.last_.layout.top, f.first_.layout.top),
   sx |-> Div(f.first_.layout.width, f.last_.layout.width),
   sy |-> Div(f.first_.layout.height, f.last_.layout.height),
   a  |-> Sub(f.last_.opacity, f.first_.opacity)]

(* "Update the invert values." *)
InvertValues(f) ==
  [x  |-> Sub(f.first_.layout.left, f.last_.layout.left),
   y  |-> Sub(f.first_.layout.top, f.last_.layout.top),
   sx |-> Div(f.first_.layout.width, f.last_.layout.width),
   sy |-> Div(f.first_.layout.height, f.last_.layout.height),
   a  |-> Sub(f.last_.opacity, f.first_.opacity)]

(* faulty variant: both kinds of property are written, tracked or not *)
invert_untracked_too(w, i) ==
  LET f == w.flips[i]
  IN  IF InvertCheck(f) # None THEN Throw(w, InvertCheck(f))
      ELSE
        LET inv == InvertValues(f)
            s2 == [w.els[i].style EXCEPT !.transformOrigin = Str("0 0"),
                                         !.transform = Transform(inv.x, inv.y, inv.sx, inv.sy),
                                         !.opacity = f.first_.opacity]
            willChange == (IF f.updateTransform_ THEN <<"transform">> ELSE <<>>)
                            \o (IF f.updateOpacity_ THEN <<"opacity">> ELSE <<>>)
        IN  [w EXCEPT !.flips[i].invert_ = inv,
                      !.els[i].style = [s2 EXCEPT !.willChange = Join(willChange)]]

invert(w, i) ==
  LET f == w.flips[i]
  IN  IF InvertCheck(f) # None THEN Throw(w, InvertCheck(f))
      ELSE
        LET inv == InvertValues(f)
            st == w.els[i].style
            s1 == IF f.updateTransform_
                    THEN [st EXCEPT !.transformOrigin = Str("0 0"),
                                    !.transform = Transform(inv.x, inv.y, inv.sx, inv.sy)]
                    ELSE st
            s2 == IF f.updateOpacity_ THEN [s1 EXCEPT !.opacity = f.first_.opacity] ELSE s1
            willChange == (IF f.updateTransform_ THEN <<"transform">> ELSE <<>>)
                            \o (IF f.updateOpacity_ THEN <<"opacity">> ELSE <<>>)
        IN  [w EXCEPT !.flips[i].invert_ = inv,
                      !.els[i].style = [s2 EXCEPT !.willChange = Join(willChange)]]

snapshot(w, i, lastClassName) ==
  LET w1 == first(w, i)
      w2 == last(w1, i, lastClassName)
  IN  invert(w2, i)

(* The page's listener of flipComplete: as the demo's, it takes itself off *)
(* the element; then it starts the next cycle, to the class 'a'.           *)
RECURSIVE play(_, _, _)
onFlipComplete(w, i, l) ==
  LET w1 == [w EXCEPT !.els[i].listeners = SelectSeq(@, LAMBDA x : x # l)]
      w2 == first(w1, i)
      w3 == last(w2, i, Str("a"))
      w4 == invert(w3, i)
  IN  play(w4, i, Undefined)

(* element_.dispatchEvent(evt): the listeners of the event's type run, in  *)
(* the order of registration, before dispatchEvent returns; what one of    *)
(* them throws is reported to the page, not to the caller.                 *)
RECURSIVE dispatchEvent(_, _, _, _)
dispatchEvent(w, i, todo, type) ==
  IF todo = <<>> THEN w
  ELSE LET l  == Head(todo)
           w1 == IF l.type = type THEN [onFlipComplete(w, i, l) EXCEPT !.err = w.err] ELSE w
       IN  dispatchEvent(w1, i, Tail(todo), type)

fire_(w, i, eventName) ==
  LET evt == [type |-> eventName, detail |-> Null, bubbles |-> TRUE, cancelable |-> TRUE]
      w1  == IF eventName = "flipComplete" THEN [w EXCEPT !.signals[i] = @ + 1] ELSE w
      w2  == [w1 EXCEPT !.heard = [evt |-> evt, flip |-> w.flips[i], style |-> w.els[i].style]]
  IN  dispatchEvent(w2, i, w2.els[i].listeners, eventName)

clamp_(value, min, max) == MathMin(max, MathMax(min, value))

(* faulty variant of the next: only the kinds the helper tracks are unset  *)
removeTrackedStyles_(w, i) ==
  LET f  == w.flips[i]
      w1 == IF f.updateTransform_
              THEN [w EXCEPT !.els[i].style.transformOrigin = Unset,
                             !.els[i].style.transform = Unset]
              ELSE w
      w2 == IF f.updateOpacity_ THEN [w1 EXCEPT !.els[i].style.opacity = Unset] ELSE w1
  IN  [w2 EXCEPT !.els[i].style.willChange = Unset]

removeTransformsAndOpacity_(w, i) ==
  [w EXCEPT !.els[i].style.transformOrigin = Unset,
            !.els[i].style.transform = Unset,
            !.els[i].style.opacity = Unset,
            !.els[i].style.willChange = Unset]

(* faulty variant: the last snapshot is left as it was *)
resetFirstAndInvertValuesOnly(w, i) ==
  [w EXCEPT !.flips[i].first_ = [layout |-> Null, opacity |-> Zero],
            !.flips[i].invert_ = [x |-> Zero, y |-> Zero, sx |-> One, sy |-> One, a |-> Zero]]

(* faulty variant: the snapshots are left as they were *)
resetInvertValuesOnly(w, i) ==
  [w EXCEPT !.flips[i].invert_ = [x |-> Zero, y |-> Zero, sx |-> One, sy |-> One, a |-> Zero]]

resetFirstLastAndInvertValues_(w, i) ==
  [w EXCEPT !.flips[i].first_ = [layout |-> Null, opacity |-> Zero],
            !.flips[i].last_ = [layout |-> Null, opacity |-> Zero],
            !.flips[i].invert_ = [x |-> Zero, y |-> Zero, sx |-> One, sy |-> One, a |-> Zero]]

(* faulty variant: the event is fired first *)
fireEventAndCleanUp_(w, i, p) ==
  LET w1 == fire_(w, i, "flipComplete")
      w2 == removeTransformsAndOpacity_(w1, i)
      w3 == resetFirstLastAndInvertValues_(w2, i)
  IN  [w3 EXCEPT !.done[p] = @ + 1]

(* p names the play() whose player calls the routine; it is only counted.  *)
cleanUpAndFireEvent_(w, i, p) ==
  LET w1 == removeTransformsAndOpacity_(w, i)
      w2 == resetFirstLastAndInvertValues_(w1, i)
      w3 == fire_(w2, i, "flipComplete")
  IN  [w3 EXCEPT !.done[p] = @ + 1]

-----------------------------------------------------------------------------
(* The rAF player (src/unnamed/part_002).                                  *)

requestAnimationFrame(w, callback) == [w EXCEPT !.raf = Append(@, callback)]

(* easing functions: the default, the README's t * t, and one that is at   *)
(* its end value from the start (as the steps(1, start) of CSS)            *)
Ease(f, t) ==
  CASE f.f = "linear" -> t
    [] f.f = "quad" -> Mul(t, t)
    [] f.f = "stepStart" -> One

(* faulty variant: the delay is left out of the start time *)
rAF_play_no_delay(w, i, startTime) ==
  LET p  == w.plays + 1
      w1 == [w EXCEPT !.flips[i].start_ =
                        IF startTime = Undefined THEN Num(w.now) ELSE startTime,
                      !.reads = IF startTime = Undefined THEN @ + 1 ELSE @,
                      !.plays = p,
                      !.done = Append(@, 0)]
  IN  requestAnimationFrame(w1, [fn |-> "update_", i |-> i, p |-> p])

rAF_play_(w, i, startTime) ==
  LET f  == w.flips[i]
      p  == w.plays + 1
      w1 == [w EXCEPT !.flips[i].start_ =
                        IF startTime = Undefined THEN Add(Num(w.now), f.delay_)
                        ELSE Add(startTime, f.delay_),
                      !.reads = IF startTime = Undefined THEN @ + 1 ELSE @,
                      !.plays = p,
                      !.done = Append(@, 0)]
  IN  requestAnimationFrame(w1, [fn |-> "update_", i |-> i, p |-> p])

(* faulty variant of the next: the translation is scaled by the eased time *)
(* itself                                                                  *)
rAF_update_apply_forwards(w, i, time) ==
  LET f == w.flips[i]
      remappedTime == Ease(f.easing_, time)
      update == [x  |-> Mul(f.invert_.x, remappedTime),
                 y  |-> Mul(f.invert_.y, remappedTime),
                 sx |-> Add(f.invert_.sx, Mul(Sub(One, f.invert_.sx), remappedTime)),
                 sy |-> Add(f.invert_.sy, Mul(Sub(One, f.invert_.sy), remappedTime)),
                 a  |-> Add(f.first_.opacity, Mul(f.invert_.a, remappedTime))]
      w1 == IF f.updateTransform_
              THEN [w EXCEPT !.els[i].style.transform =
                               Transform(update.x, update.y, update.sx, update.sy)]
              ELSE w
  IN  IF f.updateOpacity_ THEN [w1 EXCEPT !.els[i].style.opacity = update.a] ELSE w1

(* update_, from the easing to the styles it writes (lines 47 to 65)       *)
rAF_update_apply(w, i, time) ==
  LET f == w.flips[i]
      remappedTime == Ease(f.easing_, time)
      update == [x  |-> Mul(f.invert_.x, Sub(One, remappedTime)),
                 y  |-> Mul(f.invert_.y, Sub(One, remappedTime)),
                 sx |-> Add(f.invert_.sx, Mul(Sub(One, f.invert_.sx), remappedTime)),
                 sy |-> Add(f.invert_.sy, Mul(Sub(One, f.invert_.sy), remappedTime)),
                 a  |-> Add(f.first_.opacity, Mul(f.invert_.a, remappedTime))]
      w1 == IF f.updateTransform_
              THEN [w EXCEPT !.els[i].style.transform =
                               Transform(update.x, update.y, update.sx, update.sy)]
              ELSE w
  IN  IF f.updateOpacity_ THEN [w1 EXCEPT !.els[i].style.opacity = update.a] ELSE w1

(* faulty variant of the next: a frame at time 1 asks for a further frame   *)
rAF_update_again(w0, i, p) ==
  LET f == w0.flips[i]
      w == [w0 EXCEPT !.reads = @ + 1]
      time == clamp_(Div(Sub(Num(w.now), f.start_), f.duration_), Zero, One)
  IN  IF ~IsFunction(f.easing_) THEN Throw(w, "TypeError: easing_ is not a function")
      ELSE
        LET w2 == rAF_update_apply(w, i, time)
        IN  IF Less(time, One) \/ time = One
              THEN requestAnimationFrame(w2, [fn |-> "update_", i |-> i, p |-> p])
              ELSE cleanUpAndFireEvent_(w2, i, p)

rAF_update_(w0, i, p) ==
  LET f == w0.flips[i]
      w == [w0 EXCEPT !.reads = @ + 1]
      time == clamp_(Div(Sub(Num(w.now), f.start_), f.duration_), Zero, One)
  IN  IF ~IsFunction(f.easing_) THEN Throw(w, "TypeError: easing_ is not a function")
      ELSE
        LET w2 == rAF_update_apply(w, i, time)
        IN  IF Less(time, One)
              THEN requestAnimationFrame(w2, [fn |-> "update_", i |-> i, p |-> p])
              ELSE cleanUpAndFireEvent_(w2, i, p)

-----------------------------------------------------------------------------
(* The CSS player (src/unnamed/part_001).                                  *)

(* once(element, type, handler): the proxy it registers.  h names the      *)
(* handler and p the play() whose closure it is.                           *)
once(w, i, type, h, p) ==
  [w EXCEPT !.els[i].listeners = Append(@, [type |-> type, h |-> h, p |-> p])]

CubicBezier(easing) == [t |-> "string", bezier |-> easing.v]
Ms(n) == [t |-> "ms", v |-> n]

(* faulty variant: an array easing is not converted *)
CSS_play_raw_easing(w, i) ==
  LET f == w.flips[i]
      p == w.plays + 1
  IN  IF IsFunction(f.easing_)
        THEN Throw(w, "The CSS player does not support passing easing as a function.")
      ELSE
        LET transitions == (IF f.updateTransform_ THEN <<"transform">> ELSE <<>>)
                             \o (IF f.updateOpacity_ THEN <<"opacity">> ELSE <<>>)
            w1 == [w EXCEPT !.els[i].style.transitionProperty = Join(transitions),
                            !.els[i].style.transitionTimingFunction = f.easing_,
                            !.els[i].style.transitionDuration = Ms(f.duration_),
                            !.els[i].style.transitionDelay = Ms(f.delay_),
                            !.plays = p,
                            !.done = Append(@, 0)]
            w2 == once(w1, i, "transitionstart", "start", p)
            w3 == once(w2, i, "transitionend", "cleanup", p)
            w4 == once(w3, i, "transitioncancel", "cleanup", p)
        IN  requestAnimationFrame(w4, [fn |-> "CSS.frame", i |-> i, p |-> p])

CSS_play_(w, i) ==
  LET f == w.flips[i]
      p == w.plays + 1
  IN  IF IsFunction(f.easing_)
        THEN Throw(w, "The CSS player does not support passing easing as a function.")
      ELSE
        LET easing == IF IsArray(f.easing_) THEN CubicBezier(f.easing_) ELSE f.easing_
            transitions == (IF f.updateTransform_ THEN <<"transform">> ELSE <<>>)
                             \o (IF f.updateOpacity_ THEN <<"opacity">> ELSE <<>>)
            w1 == [w EXCEPT !.flips[i].easing_ = easing,
                            !.els[i].style.transitionProperty = Join(transitions),
                            !.els[i].style.transitionTimingFunction = easing,
                            !.els[i].style.transitionDuration = Ms(f.duration_),
                            !.els[i].style.transitionDelay = Ms(f.delay_),
                            !.plays = p,
                            !.done = Append(@, 0)]
            w2 == once(w1, i, "transitionstart", "start", p)
            w3 == once(w2, i, "transitionend", "cleanup", p)
            w4 == once(w3, i, "transitioncancel", "cleanup", p)
        IN  requestAnimationFrame(w4, [fn |-> "CSS.frame", i |-> i, p |-> p])

(* the arrow function handed to requestAnimationFrame                      *)
CSS_frame(w, i) ==
  LET f  == w.flips[i]
      w1 == [w EXCEPT !.flips[i].start_ = Add(Num(w.now), f.delay_),
                      !.reads = @ + 1,
                      !.els[i].classList = @ \cup {"flip-animating"}]
      w2 == IF f.updateTransform_ THEN [w1 EXCEPT !.els[i].style.transform = Unset] ELSE w1
  IN  IF f.updateOpacity_ THEN [w2 EXCEPT !.els[i].style.opacity = Unset] ELSE w2

(* the transitionstart handler, and the cleanup closure                    *)
CSS_start(w, i) == [w EXCEPT !.flips[i].start_ = Num(w.now), !.reads = @ + 1]

CSS_cleanup(w, i, p) ==
  LET w1 == [w EXCEPT !.els[i].style.transitionDuration = Unset,
                      !.els[i].style.transitionTimingFunction = Unset,
                      !.els[i].style.transitionProperty = Unset,
                      !.els[i].style.transitionDelay = Unset,
                      !.els[i].classList = @ \ {"flip-animating"}]
  IN  cleanUpAndFireEvent_(w1, i, p)

RemoveOne(list, x) ==
  LET idx == {k \in 1..Len(list) : list[k] = x}
  IN  IF idx = {} THEN list
      ELSE LET k == CHOOSE j \in idx : \A m \in idx : j <= m
           IN  SubSeq(list, 1, k - 1) \o SubSeq(list, k + 1, Len(list))

(* faulty variant of the next: the proxy does not look at the target       *)
proxy_any_target(w, i, l, target) ==
  LET w1 == IF l.h = "start" THEN CSS_start(w, i) ELSE CSS_cleanup(w, i, l.p)
  IN  [w1 EXCEPT !.els[i].listeners = RemoveOne(@, l)]

(* the proxy of once(): l is the listener, target the event's target       *)
proxy(w, i, l, target) ==
  IF target # El(i) THEN w
  ELSE LET w1 == IF l.h = "start" THEN CSS_start(w, i) ELSE CSS_cleanup(w, i, l.p)
       IN  [w1 EXCEPT !.els[i].listeners = RemoveOne(@, l)]

(* The browser delivers an event of the given type to element i: every     *)
(* listener of that type registered when the dispatch starts runs, in the  *)
(* order of registration.                                                  *)
RECURSIVE dispatch(_, _, _, _, _)
dispatch(w, i, todo, type, target) ==
  IF todo = <<>> THEN w
  ELSE LET l  == Head(todo)
           w1 == IF l.type = type THEN proxy(w, i, l, target) ELSE w
       IN  dispatch(w1, i, Tail(todo), type, target)

-----------------------------------------------------------------------------
(* The GSAP player (src/unnamed/part_001, second module).                  *)

(* typeof x, and x || y on numbers                                         *)
TypeOf(x) == IF "t" \in DOMAIN x THEN x.t ELSE "number"
Truthy(x) == x # Undefined /\ x # Null /\ x # Zero /\ x # NaN

(* The tween engines a page can have loaded, as global identifiers; the    *)
(* world's host is the set of those that are defined.  Reading one that    *)
(* is not defined throws a ReferenceError.                                 *)
Engines == {"TweenMax", "TweenLite"}
Hosts == SUBSET Engines
NotDefined(name) == "ReferenceError: " \o name \o " is not defined"

GSAP_play_(w, i, startTime) ==
  LET f  == w.flips[i]
      p  == w.plays + 1
      w0 == IF Truthy(startTime) THEN w ELSE [w EXCEPT !.reads = @ + 1]
      start == Div(IF Truthy(startTime) THEN startTime ELSE Num(w.now), Num(1000))
      tweenLiteAvailable == TypeOf(Str("TweenLite")) # "undefined"
      tweenMaxAvailable  == TypeOf(Str("TweenMax")) # "undefined"
      tween == IF tweenMaxAvailable THEN "TweenMax"
               ELSE IF tweenLiteAvailable THEN "TweenLite"
               ELSE "none"
  IN  IF tween = "none" THEN Throw(w0, "GSAP requested, but TweenMax/Lite not available.")
      ELSE IF tween \notin w.host THEN Throw(w0, NotDefined(tween))
      ELSE
        LET o1 == [ease |-> f.easing_, onComplete |-> "cleanUpAndFireEvent_"]
            o2 == IF f.updateTransform_
                    THEN Assign(o1, [scaleX |-> One, scaleY |-> One, x |-> Zero, y |-> Zero])
                    ELSE o1
            options == IF f.updateOpacity_ THEN Assign(o2, [opacity |-> f.last_.opacity]) ELSE o2
            elTween == [fn |-> "tween", engine |-> tween, i |-> i, p |-> p,
                        duration |-> Div(f.duration_, Num(1000)), options |-> options,
                        startTime |-> Add(start, Div(f.delay_, Num(1000)))]
        IN  [w0 EXCEPT !.raf = Append(@, elTween), !.plays = p, !.done = Append(@, 0)]

-----------------------------------------------------------------------------
(* play(), and the group coordinator (FLIP.group).                         *)

(* faulty variant: play_ is called without the check for it *)
play_unchecked(w, i, startTime) ==
  LET f == w.flips[i]
  IN  IF f.invert_ = Null THEN Throw(w, "invert() must be called before play()")
      ELSE IF "play_" \notin DOMAIN f.bound THEN Throw(w, "TypeError: this.play_ is not a function")
      ELSE IF f.bound["play_"] = "rAF" THEN rAF_play_(w, i, startTime)
      ELSE IF f.bound["play_"] = "GSAP" THEN GSAP_play_(w, i, startTime)
      ELSE CSS_play_(w, i)

play(w, i, startTime) ==
  LET f == w.flips[i]
  IN  IF f.invert_ = Null THEN Throw(w, "invert() must be called before play()")
      ELSE IF "play_" \notin DOMAIN f.bound THEN Throw(w, "No player specified.")
      ELSE IF f.bound["play_"] = "rAF" THEN rAF_play_(w, i, startTime)
      ELSE IF f.bound["play_"] = "GSAP" THEN GSAP_play_(w, i, startTime)
      ELSE CSS_play_(w, i)

(* lastClassName[index], or lastClassName itself when it is no array       *)
ClassFor(lastClassName, index) ==
  IF IsArray(lastClassName)
    THEN (IF index <= Len(lastClassName.v) THEN lastClassName.v[index] ELSE Undefined)
    ELSE lastClassName

classListAdd(w, i, lastClassName) ==
  LET className == ClassFor(lastClassName, i)
  IN  IF className # Undefined
        THEN [w EXCEPT !.els[i].classList = @ \cup {className.v}]
        ELSE w

Call(w, k, method, arg) ==
  CASE method = "addClass"     -> addClass(w, k, arg)
    [] method = "removeClass"  -> removeClass(w, k, arg)
    [] method = "first"        -> first(w, k)
    [] method = "classList.add" -> classListAdd(w, k, arg)
    [] method = "last"         -> last(w, k, arg)
    [] method = "invert"       -> invert(w, k)
    [] method = "play"         -> play(w, k, arg)
    [] method = "classList.add+last" -> last(classListAdd(w, k, arg), k, Undefined)

(* the callback of forEach has been entered for member k *)
Entered(w, k, method) == [w EXCEPT !.calls = Append(@, [method |-> method, member |-> k])]

(* faulty variant of the next: the loop ends one member early              *)
RECURSIVE forEach_but_last(_, _, _, _)
forEach_but_last(w, k, method, arg) ==
  IF k >= Len(w.flips) THEN w
  ELSE LET w1 == Call(Entered(w, k, method), k, method, arg)
       IN  IF w1.err # None THEN w1 ELSE forEach_but_last(w1, k + 1, method, arg)

(* flips.forEach(flip => flip.method(arg)), from member k on: a throw      *)
(* ends the loop.                                                          *)
RECURSIVE forEach(_, _, _, _)
forEach(w, k, method, arg) ==
  IF k > Len(w.flips) THEN w
  ELSE LET w1 == Call(Entered(w, k, method), k, method, arg)
       IN  IF w1.err # None THEN w1 ELSE forEach(w1, k + 1, method, arg)

(* FLIP.group(flips): what it throws, and the helpers of the group         *)
RECURSIVE group(_, _)
group(reg, flipsArg) ==
  IF ~IsArray(flipsArg) THEN [err |-> "group() expects an array of objects.", flips_ |-> <<>>]
  ELSE IF flipsArg.v = <<>> THEN [err |-> None, flips_ |-> <<>>]
  ELSE LET n    == Len(flipsArg.v)
           rest == group(reg, Arr(SubSeq(flipsArg.v, 1, n - 1)))
           made == FLIP(reg, flipsArg.v[n])
       IN  IF rest.err # None THEN rest
           ELSE IF made.err # None THEN [err |-> made.err, flips_ |-> <<>>]
           ELSE [err |-> None, flips_ |-> Append(rest.flips_, made.flip)]

group_addClass(w, className)    == forEach(w, 1, "addClass", className)
group_removeClass(w, className) == forEach(w, 1, "removeClass", className)
group_first(w)                  == forEach(w, 1, "first", Undefined)
group_invert(w)                 == forEach(w, 1, "invert", Undefined)

(* faulty variant: one pass, each member measured as soon as its class is added *)
group_last_one_pass(w, lastClassName) == forEach(w, 1, "classList.add+last", lastClassName)

group_last(w, lastClassName) ==
  LET w1 == forEach(w, 1, "classList.add", lastClassName)
  IN  forEach(w1, 1, "last", Undefined)

(* faulty variant: startTime handed on as given, each member reading the clock *)
group_play_unresolved(w, startTime) == forEach(w, 1, "play", startTime)

group_play(w, startTime) ==
  LET w1 == IF startTime = Undefined THEN [w EXCEPT !.reads = @ + 1] ELSE w
      st == IF startTime = Undefined THEN Num(w.now) ELSE startTime
  IN  forEach(w1, 1, "play", st)

-----------------------------------------------------------------------------
(* Actions.                                                                *)

World == [now |-> now, flips |-> flips, els |-> els, raf |-> raf,
          plays |-> plays, done |-> done, signals |-> signals, heard |-> heard,
          page |-> [k \in 1..Len(els) |-> 1], host |-> {}, err |-> None, reads |-> 0,
          calls |-> <<>>]

(* The world with element i rendered as pose k: the page may have changed  *)
(* in any way since the last call.                                         *)
Rendered(i, k) == [World EXCEPT !.page[i] = k]
PoseIds == 1..Len(Poses)

(* The call has run to its end (or to its throw) and left w behind.        *)
Commit(w, op) ==
  /\ flips' = w.flips
  /\ els' = w.els
  /\ raf' = w.raf
  /\ plays' = w.plays
  /\ done' = w.done
  /\ signals' = w.signals
  /\ heard' = w.heard
  /\ out' = [op |-> op, err |-> w.err, reads |-> w.reads, calls |-> w.calls]
  /\ UNCHANGED <<now, players_, warnings>>

Idle == [op |-> "new", err |-> None, reads |-> 0, calls |-> <<>>]

TimeArgs  == {Undefined, Num(1)}

(* first() and last(), the page rendering the element as one of poses      *)
FirstAt(i, poses) == \E k \in poses : Commit(first(Rendered(i, k), i), "first")
LastAt(i, poses)  == \E k \in poses : Commit(last(Rendered(i, k), i, Undefined), "last")

Invert(i) == Commit(invert(World, i), "invert")

Play(i) ==
  /\ plays < MaxPlays
  /\ \E t \in TimeArgs : Commit(play(World, i, t), "play")

(* The browser runs the oldest callback handed to requestAnimationFrame.   *)
FrameResult ==
  LET cb == Head(raf)
      w  == [World EXCEPT !.raf = Tail(raf)]
  IN  IF cb.fn = "update_" THEN rAF_update_(w, cb.i, cb.p) ELSE CSS_frame(w, cb.i)

Frame ==
  /\ raf # <<>>
  /\ Commit(FrameResult, "frame")

(* A callback is waiting whose delivery changes the state: this is         *)
(* ENABLED <<Frame>>_vars, computed from the state.                        *)
FrameDue ==
  /\ raf # <<>>
  /\ LET w == FrameResult
     IN  <<w.flips, w.els, w.raf, w.plays, w.done, w.signals, w.heard,
           [op |-> "frame", err |-> w.err, reads |-> w.reads, calls |-> w.calls]>>
           # <<flips, els, raf, plays, done, signals, heard, out>>

(* The browser delivers a transition event to element i; its target is    *)
(* the element itself or a descendant whose event bubbles up to it.        *)
Descendant(i) == [t |-> "descendant", of |-> i]
TransitionEvents == {"transitionstart", "transitionend", "transitioncancel"}

EventOf(i, type, target) ==
  /\ els[i].listeners # <<>>
  /\ Commit(dispatch(World, i, els[i].listeners, type, target), type)

Event(i) ==
  \E type \in TransitionEvents, target \in {El(i), Descendant(i)} : EventOf(i, type, target)

(* Time passes.                                                            *)
Tick ==
  /\ now < MaxClock
  /\ now' = now + 1
  /\ UNCHANGED <<players_, flips, els, raf, out, plays, done, signals, warnings, heard>>

-----------------------------------------------------------------------------
(* One helper with the rAF player, built by new FLIP(options) after        *)
(* FLIP.extend('rAF', rAF).                                                *)

rAFOptions == {
  [element |-> El(1), duration |-> Num(2), easing |-> Fn("quad")],
  [element |-> El(1), duration |-> Num(1), delay |-> Num(1), transform |-> FALSE,
   easing |-> Fn("stepStart")],
  [element |-> El(1), duration |-> Zero, opacity |-> FALSE] }

InitWith(reg, optionsList) ==
  /\ now = 0
  /\ players_ = reg
  /\ flips = [k \in 1..Len(optionsList) |-> FLIP(reg, optionsList[k]).flip]
  /\ els = [k \in 1..Len(optionsList) |-> NewElement]
  /\ raf = <<>>
  /\ out = Idle
  /\ plays = 0
  /\ done = <<>>
  /\ signals = [k \in 1..Len(optionsList) |-> 0]
  /\ warnings = 0
  /\ heard = Undefined

InitRAF ==
  \E o \in rAFOptions : InitWith(extend(Undefined, 0, "rAF", rAFPlayer).players_, <<o>>)

NextRAF ==
  \/ FirstAt(1, {1, 3})
  \/ LastAt(1, {2, 3})
  \/ Invert(1)
  \/ Play(1)
  \/ Frame
  \/ Tick

SpecRAF == InitRAF /\ [][NextRAF]_vars

(* The same helper where the browser delivers every frame callback it was  *)
(* asked for (requestAnimationFrame runs each callback at the next frame)  *)
(* and time does not stand still. FrameFair is WF_vars(Frame) with its     *)
(* ENABLED written out as FrameDue.                                        *)
FrameFair == []<>(~FrameDue) \/ []<><<Frame>>_vars

NextRAFLive ==
  \/ FirstAt(1, {1})
  \/ LastAt(1, {2})
  \/ Invert(1)
  \/ Play(1)
  \/ Frame
  \/ Tick

SpecRAFLive == InitRAF /\ [][NextRAFLive]_vars /\ FrameFair /\ WF_vars(Tick)

-----------------------------------------------------------------------------
(* A group of three helpers with the rAF player, built by FLIP.group().    *)

GroupOptions == <<
  [element |-> El(1), duration |-> Num(1)],
  [element |-> El(2), duration |-> Num(1), delay |-> Num(1)],
  [element |-> El(3), duration |-> Num(2), delay |-> Num(2), transform |-> FALSE] >>

(* the page, as the group's calls find it: one pose for each element       *)
Pages == {<<1, 2, 3>>}
RenderedAll(pg) == [World EXCEPT !.page = pg]

GroupClassArgs == {Undefined, Str("a"), Arr(<<Str("a"), Str("b"), Str("c")>>),
                   Arr(<<Undefined, Str("b")>>)}

GroupFirst == \E pg \in Pages : Commit(group_first(RenderedAll(pg)), "group.first")
GroupLastWith(c) == \E pg \in Pages : Commit(group_last(RenderedAll(pg), c), "group.last")
GroupLast == \E c \in GroupClassArgs : GroupLastWith(c)
GroupInvert == Commit(group_invert(World), "group.invert")
GroupPlayWith(t) == Commit(group_play(World, t), "group.play")
GroupPlay == plays < MaxPlays /\ \E t \in TimeArgs : GroupPlayWith(t)
GroupAddClass == Commit(group_addClass(World, Str("a")), "group.addClass")
GroupRemoveClass == Commit(group_removeClass(World, Str("a")), "group.removeClass")

InitGroup ==
  LET reg == extend(Undefined, 0, "rAF", rAFPlayer).players_
      g   == group(reg, Arr(GroupOptions))
  IN  /\ now = MaxClock    \* the group's calls are made in one task, at one clock reading
      /\ players_ = reg
      /\ flips = g.flips_
      /\ els = [k \in 1..Len(GroupOptions) |-> NewElement]
      /\ raf = <<>>
      /\ out = Idle
      /\ plays = 0
      /\ done = <<>>
      /\ signals = [k \in 1..Len(GroupOptions) |-> 0]
      /\ warnings = 0
      /\ heard = Undefined

NextGroup ==
  \/ GroupFirst
  \/ GroupLast
  \/ GroupInvert
  \/ GroupPlay
  \/ GroupAddClass
  \/ GroupRemoveClass

SpecGroup == InitGroup /\ [][NextGroup]_vars

-----------------------------------------------------------------------------
(* The registry and the constructor: FLIP.extend() and new FLIP(), from    *)
(* the state core.js is loaded in, where FLIP.players_ is still undefined. *)

ExtendNames == {"rAF", "custom"}
Players == {rAFPlayer, CustomPlayer}

ElementOptions == {<<>>, [element |-> El(1)]}
EasingOptions  == {<<>>, [easing |-> Obj(Str("ease"))], [easing |-> Str("ease")],
                   [easing |-> Obj(Undefined)], [easing |-> Null]}
PlayOptions    == {<<>>, [play |-> "bogus"], [play |-> "toString"], [play |-> "custom"]}
AllOptions == {Assign(Assign(a, b), c) : a \in ElementOptions, b \in EasingOptions,
                                          c \in PlayOptions}

Extend(name, player) ==
  /\ warnings < MaxWarnings
  /\ LET r == extend(players_, warnings, name, player)
     IN  /\ players_' = r.players_
         /\ warnings' = r.warnings
  /\ out' = [op |-> "extend", err |-> None, reads |-> 0, calls |-> <<>>]
  /\ UNCHANGED <<now, flips, els, raf, plays, done, signals, heard>>

(* new FLIP(options); flips holds the helper that the latest successful    *)
(* construction returned, a throw leaves the caller with what it had.      *)
Construct(options) ==
  LET made == FLIP(players_, options)
      kept == made.err = None
  IN  /\ out' = [op |-> "new", err |-> made.err, reads |-> 0, calls |-> <<>>]
      /\ flips' = IF kept THEN <<made.flip>> ELSE flips
      /\ els' = IF kept THEN <<NewElement>> ELSE els
      /\ signals' = IF kept THEN <<0>> ELSE signals
      /\ UNCHANGED <<now, players_, raf, plays, done, warnings, heard>>

InitRegistry ==
  /\ now = 0
  /\ players_ = Undefined
  /\ flips = <<>>
  /\ els = <<>>
  /\ raf = <<>>
  /\ out = Idle
  /\ plays = 0
  /\ done = <<>>
  /\ signals = <<>>
  /\ warnings = 0
  /\ heard = Undefined

NextRegistry ==
  \/ \E name \in ExtendNames, player \in Players : Extend(name, player)
  \/ \E o \in AllOptions : Construct(o)

SpecRegistry == InitRegistry /\ [][NextRegistry]_vars

-----------------------------------------------------------------------------
(* A page that has registered the rAF player and, as 'custom', a player    *)
(* without play_, and then constructs helpers and calls them.              *)

NoPlayOptions == {
  [element |-> El(1)],
  [element |-> El(1), play |-> "custom"],
  [element |-> El(1), play |-> "custom", opacity |-> FALSE, duration |-> Num(1)] }

(* the calls on the helper that the caller holds *)
HelperCall ==
  /\ flips # <<>>
  /\ (FirstAt(1, {1, 3}) \/ LastAt(1, {2}) \/ Invert(1) \/ Play(1))

InitNoPlay ==
  LET r1 == extend(Undefined, 0, "rAF", rAFPlayer)
      r2 == extend(r1.players_, r1.warnings, "custom", CustomPlayer)
  IN  /\ now = 0
      /\ players_ = r2.players_
      /\ flips = <<>>
      /\ els = <<>>
      /\ raf = <<>>
      /\ out = [op |-> "extend", err |-> None, reads |-> 0, calls |-> <<>>]
      /\ plays = 0
      /\ done = <<>>
      /\ signals = <<>>
      /\ warnings = r2.warnings
      /\ heard = Undefined

NextNoPlay ==
  \/ \E o \in NoPlayOptions : Construct(o)
  \/ HelperCall

SpecNoPlay == InitNoPlay /\ [][NextNoPlay]_vars

-----------------------------------------------------------------------------
(* A page that has registered the CSS player, constructs one helper for    *)
(* it with an easing of each kind, and calls it.                           *)

CSSEasings == {Fn("quad"), Str("ease"), Arr(<<0, 0, 1, 1>>), Obj(Fn("getRatio"))}

(* easing omitted, a function, a string, an array, or an object whose      *)
(* getRatio is a function                                                  *)
UsualCSSOptions ==
  {[element |-> El(1), play |-> "CSS"]}
    \cup {[element |-> El(1), play |-> "CSS", easing |-> e] : e \in CSSEasings}

(* an object whose getRatio is a string                                    *)
OtherCSSOptions == {[element |-> El(1), play |-> "CSS", easing |-> Obj(Str("ease"))]}

ConstructOnce == flips = <<>> /\ \E o \in UsualCSSOptions \cup OtherCSSOptions : Construct(o)

InitEasing == InitWith(extend(Undefined, 0, "CSS", CSSPlayer).players_, <<>>)

NextEasing ==
  \/ ConstructOnce
  \/ HelperCall
  \/ Frame
  \/ flips # <<>> /\ Event(1)

SpecEasing == InitEasing /\ [][NextEasing]_vars

-----------------------------------------------------------------------------
(* A page that registers players under two names, registers the names      *)
(* again, and constructs and plays two helpers, one after the other.       *)

BindNames == {"a", "b"}
BindPlayers == {rAFPlayer, CSSPlayer}

(* the options of the k-th helper, playing with the player of that name    *)
BindOptions(name) ==
  <<[element |-> El(1), play |-> name, easing |-> Obj(Str("ease"))],
    [element |-> El(2), play |-> name, easing |-> Obj(Str("ease")), delay |-> Num(1)]>>

Register == \E name \in BindNames, player \in BindPlayers : Extend(name, player)

ConstructNext(name) ==
  LET k == Len(flips) + 1
      made == FLIP(players_, BindOptions(name)[k])
  IN  /\ k <= Len(BindOptions(name))
      /\ made.err = None
      /\ flips' = Append(flips, made.flip)
      /\ els' = Append(els, NewElement)
      /\ signals' = Append(signals, 0)
      /\ out' = [op |-> "new", err |-> None, reads |-> 0, calls |-> <<>>]
      /\ UNCHANGED <<now, players_, raf, plays, done, warnings, heard>>

PlayMember(i) == i <= Len(flips) /\ Play(i)

InitBinding ==
  LET r1 == extend(Undefined, 0, "a", rAFPlayer)
      r2 == extend(r1.players_, r1.warnings, "b", CSSPlayer)
  IN  InitWith(r2.players_, <<>>)

NextBinding ==
  \/ Register
  \/ \E name \in BindNames : ConstructNext(name)
  \/ PlayMember(1)
  \/ PlayMember(2)

SpecBinding == InitBinding /\ [][NextBinding]_vars

-----------------------------------------------------------------------------
(* One helper with the rAF player on a page that listens to flipComplete.  *)

SignalOptions == {
  [element |-> El(1), duration |-> Num(1)],
  [element |-> El(1), duration |-> Num(2), delay |-> Num(1), transform |-> FALSE] }

(* element.addEventListener('flipComplete', onFlipComplete): a listener    *)
(* that is on the element already is not added again.                      *)
Listen(i) ==
  LET l == [type |-> "flipComplete", h |-> "onFlipComplete", p |-> 0]
  IN  /\ plays < MaxPlays
      /\ \A k \in 1..Len(els[i].listeners) : els[i].listeners[k] # l
      /\ Commit([World EXCEPT !.els[i].listeners = Append(@, l)], "listen")

InitSignal ==
  \E o \in SignalOptions : InitWith(extend(Undefined, 0, "rAF", rAFPlayer).players_, <<o>>)

NextSignal ==
  \/ FirstAt(1, {1})
  \/ LastAt(1, {2})
  \/ Invert(1)
  \/ Play(1)
  \/ Frame
  \/ Tick
  \/ Listen(1)

SpecSignal == InitSignal /\ [][NextSignal]_vars

-----------------------------------------------------------------------------
(* One helper that is not played: first(), last(className) and invert()    *)
(* on an element that may carry inline styles of the page's author, for    *)
(* each choice of the kinds of property the helper tracks.                 *)

SnapOptions == {
  [element |-> El(1)],
  [element |-> El(1), transform |-> FALSE],
  [element |-> El(1), opacity |-> FALSE],
  [element |-> El(1), transform |-> FALSE, opacity |-> FALSE] }

Styled == [NoStyle EXCEPT !.transformOrigin = Str("50% 50%"), !.transform = Str("rotate(5deg)"),
                          !.opacity = Frac(3, 10), !.willChange = Str("scroll-position")]

LastArgs == {Undefined, Str("end")}

LastWith(i, k, c) == Commit(last(Rendered(i, k), i, c), "last")
LastClassAt(i, poses) == \E k \in poses, c \in LastArgs : LastWith(i, k, c)
RemoveClass(i, c) == Commit(removeClass(World, i, c), "removeClass")

InitSnap ==
  \E o \in SnapOptions, st \in {NoStyle, Styled} :
    LET reg == extend(Undefined, 0, "rAF", rAFPlayer).players_
    IN  /\ now = 0
        /\ players_ = reg
        /\ flips = <<FLIP(reg, o).flip>>
        /\ els = <<[NewElement EXCEPT !.style = st]>>
        /\ raf = <<>>
        /\ out = Idle
        /\ plays = 0
        /\ done = <<>>
        /\ signals = <<0>>
        /\ warnings = 0
        /\ heard = Undefined

NextSnap ==
  \/ FirstAt(1, {1, 3})
  \/ LastClassAt(1, {2, 3})
  \/ Invert(1)
  \/ RemoveClass(1, Str("end"))

SpecSnap == InitSnap /\ [][NextSnap]_vars

-----------------------------------------------------------------------------
(* One helper with the rAF player, for each choice of the kinds of         *)
(* property it tracks, on a bare element or on one of class 'card' that    *)
(* carries inline styles of the page's author.                             *)

CardOptions == {Assign(o, [duration |-> Num(1)]) : o \in SnapOptions}

Card == [NewElement EXCEPT !.classList = {"card"}, !.style = Styled]

InitCard ==
  \E o \in CardOptions, e \in {NewElement, Card} :
    LET reg == extend(Undefined, 0, "rAF", rAFPlayer).players_
    IN  /\ now = 0
        /\ players_ = reg
        /\ flips = <<FLIP(reg, o).flip>>
        /\ els = <<e>>
        /\ raf = <<>>
        /\ out = Idle
        /\ plays = 0
        /\ done = <<>>
        /\ signals = <<0>>
        /\ warnings = 0
        /\ heard = Undefined

NextCard ==
  \/ FirstAt(1, {1})
  \/ LastAt(1, {2})
  \/ Invert(1)
  \/ Play(1)
  \/ Frame
  \/ Tick

SpecCard == InitCard /\ [][NextCard]_vars

-----------------------------------------------------------------------------
(* One helper with the GSAP player, on a page that has loaded any of the   *)
(* tween engines, or none.  The engine keeps the tweens it is given and    *)
(* calls a tween's onComplete when, by its own clock, the tween is over.   *)

GSAPOptions == {
  [element |-> El(1), duration |-> Num(2), play |-> "GSAP"],
  [element |-> El(1), duration |-> Num(1), delay |-> Num(1), opacity |-> FALSE,
   play |-> "GSAP"] }

PlayOn(i, host, t) == Commit(play([World EXCEPT !.host = host], i, t), "play")
PlayOnAny(i) == plays < MaxPlays /\ \E h \in Hosts, t \in TimeArgs : PlayOn(i, h, t)

TweenComplete ==
  /\ raf # <<>>
  /\ Head(raf).fn = "tween"
  /\ LET cb == Head(raf)
     IN  Commit(cleanUpAndFireEvent_([World EXCEPT !.raf = Tail(raf)], cb.i, cb.p),
                "onComplete")

InitGSAP ==
  \E o \in GSAPOptions : InitWith(extend(Undefined, 0, "GSAP", GSAPPlayer).players_, <<o>>)

NextGSAP ==
  \/ FirstAt(1, {1})
  \/ LastAt(1, {2})
  \/ Invert(1)
  \/ PlayOnAny(1)
  \/ TweenComplete
  \/ Tick

SpecGSAP == InitGSAP /\ [][NextGSAP]_vars

-----------------------------------------------------------------------------
(* One helper with the CSS player, built by new FLIP(options) after        *)
(* FLIP.extend('CSS', CSS).  The constructor takes the easing from the     *)
(* getRatio member of an easing object, so that is how a string or an      *)
(* array of control points reaches the player.                             *)

CSSOptions == {
  [element |-> El(1), duration |-> Num(2), easing |-> Obj(Str("ease")), play |-> "CSS"],
  [element |-> El(1), duration |-> Num(2), delay |-> Num(1), opacity |-> FALSE,
   easing |-> Obj(Arr(<<0, 0, 1, 1>>)), play |-> "CSS"],
  [element |-> El(1), duration |-> Num(2), play |-> "CSS"] }

InitCSS ==
  \E o \in CSSOptions : InitWith(extend(Undefined, 0, "CSS", CSSPlayer).players_, <<o>>)

NextCSS ==
  \/ FirstAt(1, {1})
  \/ LastAt(1, {2})
  \/ Invert(1)
  \/ Play(1)
  \/ Frame
  \/ Event(1)

SpecCSS == InitCSS /\ [][NextCSS]_vars

-----------------------------------------------------------------------------
(* Properties of one helper with the rAF player (SpecRAF).                 *)

PoseSnapshot(k) == [layout |-> Poses[k].rect, opacity |-> Poses[k].opacity]

Inverted == out.op = "invert" /\ out.err = None

(* C1: after every successful invert() whose last snapshot has non-zero    *)
(* width and height, the stored delta is x = first.left - last.left,       *)
(* y = first.top - last.top, sx = first.width / last.width,                *)
(* sy = first.height / last.height, a = last.opacity - first.opacity,      *)
(* whatever delta was stored before; and first {0,0,100,100, 1} with last  *)
(* {50,50,200,200, 0.5} gives (-50,-50), (0.5,0.5) and -0.5.               *)
C1_InvertDelta ==
  LET f == flips[1]
      d == f.invert_
  IN  (Inverted /\ f.last_.layout.width # Zero /\ f.last_.layout.height # Zero) =>
        /\ IsFinite(d.x) /\ IsFinite(d.y) /\ IsFinite(d.sx) /\ IsFinite(d.sy) /\ IsFinite(d.a)
        /\ Add(d.x, f.last_.layout.left) = f.first_.layout.left
        /\ Add(d.y, f.last_.layout.top) = f.first_.layout.top
        /\ Mul(d.sx, f.last_.layout.width) = f.first_.layout.width
        /\ Mul(d.sy, f.last_.layout.height) = f.first_.layout.height
        /\ Add(d.a, f.first_.opacity) = f.last_.opacity
        /\ (f.first_ = PoseSnapshot(1) /\ f.last_ = PoseSnapshot(2)) =>
             /\ d = [x |-> Num(-50), y |-> Num(-50), sx |-> Frac(1, 2), sy |-> Frac(1, 2),
                     a |-> Frac(-1, 2)]
             /\ f.updateTransform_ =>
                  els[1].style.transform = Transform(Num(-50), Num(-50), Frac(1, 2), Frac(1, 2))

(* the worked example, inverted a second time over an older delta          *)
C1_Witness ==
  /\ Inverted
  /\ plays >= 1
  /\ flips[1].first_ = PoseSnapshot(1)
  /\ flips[1].last_ = PoseSnapshot(2)
  /\ flips[1].invert_.x = Num(-50)
  /\ flips[1].invert_.sx = Frac(1, 2)

(* C2: invert() throws whenever a snapshot is missing, naming first()      *)
(* when the first snapshot is missing (also when both are), and then       *)
(* leaves the stored delta and the element's style as they were.           *)
C2_InvertThrows ==
  [][ (Invert(1) /\ (flips[1].first_.layout = Null \/ flips[1].last_.layout = Null)) =>
        /\ out'.err = (IF flips[1].first_.layout = Null THEN NoFirst ELSE NoLast)
        /\ flips' = flips
        /\ els' = els ]_vars

(* invert() has thrown for a missing last snapshot, in a later cycle       *)
C2_Witness ==
  /\ out.op = "invert"
  /\ out.err = NoLast
  /\ flips[1].first_.layout # Null
  /\ plays >= 1

(* invert() has thrown for a missing first snapshot, the last one present  *)
C2_WitnessFirst ==
  /\ out.op = "invert"
  /\ out.err = NoFirst
  /\ flips[1].last_.layout # Null

(* C3: play() on a helper on which invert() has not been called since      *)
(* construction or since the last completion throws the sequencing error,  *)
(* and schedules no frame, registers no listener and writes no style.      *)
(* (The first snapshot is missing exactly from construction, or from a     *)
(* completion, until the next first(); invert() cannot have succeeded      *)
(* in between.)                                                            *)
C3_PlayBeforeInvertThrows ==
  [][ (Play(1) /\ flips[1].first_.layout = Null) =>
        /\ out'.err = "invert() must be called before play()"
        /\ raf' = raf
        /\ els' = els ]_vars

(* the same, of the state play() leaves behind *)
C3_PlayedOnlyAfterInvert ==
  (out.op = "play" /\ out.err = None) => flips[1].first_.layout # Null

(* The state of the helper right after construction, but for start_.       *)
AsConstructed(f) ==
  /\ f.first_ = NewSnapshot
  /\ f.last_ = NewSnapshot
  /\ f.invert_ = NewInvert
  /\ \E o \in rAFOptions : [f EXCEPT !.start_ = Zero] = FLIP(players_, o).flip

StyleCleared(e) ==
  /\ e.style.transformOrigin = Unset
  /\ e.style.transform = Unset
  /\ e.style.opacity = Unset
  /\ e.style.willChange = Unset

(* the completion routine has run in this step *)
Completes == Len(done') = Len(done) /\ done' # done

(* A helper as new FLIP() leaves it, holding the snapshots of f.           *)
Fresh(f) == [f EXCEPT !.invert_ = NewInvert, !.start_ = Zero]
FreshWorld(f) == [World EXCEPT !.flips = <<Fresh(f)>>, !.els = <<NewElement>>]

(* C4: the completion routine leaves the element's transform-origin,       *)
(* transform, opacity and will-change unset and the helper as it was right *)
(* after construction, but for start_; an invert() of a later cycle then   *)
(* stores the delta and writes the styles that the invert() of a first     *)
(* cycle on a new helper stores and writes for the same snapshots; and     *)
(* the completion routine runs at most once for each play().               *)
C4_ReusableAfterCompletion ==
  [][ /\ Completes => (StyleCleared(els'[1]) /\ AsConstructed(flips'[1]))
      /\ (Invert(1) /\ out'.err = None) =>
           LET w == invert(FreshWorld(flips[1]), 1)
           IN  /\ flips'[1].invert_ = w.flips[1].invert_
               /\ els'[1].style = w.els[1].style
      /\ \A p \in 1..Len(done') : done'[p] <= 1 ]_vars

(* the second cycle has completed, after an invert() of the worked example *)
C4_Witness ==
  /\ plays = 2
  /\ done = <<1, 1>>
  /\ raf = <<>>
  /\ out.op = "frame"
  /\ StyleCleared(els[1])
  /\ flips[1].first_ = NewSnapshot
  /\ flips[1].start_ # Zero

(* The clamped normalized time update_ computes now.                       *)
FrameTime(f) == clamp_(Div(Sub(Num(now), f.start_), f.duration_), Zero, One)

Pending(queue, p) == {k \in 1..Len(queue) : queue[k].p = p}

(* this step delivers the frame callback of play p *)
FrameOf(p) == Frame /\ Head(raf).p = p

(* C5: with the rAF player the completion routine runs at most once for    *)
(* each play(), and only on a frame of that play() whose clamped time is   *)
(* 1; a frame whose clamped time is not 1 requests exactly one further     *)
(* frame and completes nothing; and once a play() has completed none of    *)
(* its frame callbacks is pending.                                         *)
C5_CompletesOnceAtOne ==
  [][ \A p \in 1..Len(done') :
        LET before == IF p <= Len(done) THEN done[p] ELSE 0
        IN  /\ done'[p] <= 1
            /\ done'[p] > before => (FrameOf(p) /\ FrameTime(flips[1]) = One)
            /\ (FrameOf(p) /\ FrameTime(flips[1]) # One) =>
                 /\ done'[p] = before
                 /\ Cardinality(Pending(raf', p)) = 1
            /\ done'[p] = 1 => Pending(raf', p) = {} ]_vars

(* C5, but for the frame that completes: its clamped time is not below 1   *)
(* (it is 1, or NaN when duration_ is 0 and the clock reads start_).       *)
C5_CompletesOnceWhenNotBelowOne ==
  [][ \A p \in 1..Len(done') :
        LET before == IF p <= Len(done) THEN done[p] ELSE 0
        IN  /\ done'[p] <= 1
            /\ done'[p] > before => (FrameOf(p) /\ ~Less(FrameTime(flips[1]), One))
            /\ (FrameOf(p) /\ Less(FrameTime(flips[1]), One)) =>
                 /\ done'[p] = before
                 /\ Cardinality(Pending(raf', p)) = 1
            /\ done'[p] = 1 => Pending(raf', p) = {} ]_vars

(* The start time play(t) is to leave in start_. *)
StartOf(t) == Add(IF t = Undefined THEN Num(now) ELSE t, flips[1].delay_)

(* this step delivers a frame while the clock is below start_ *)
FrameBelowStart == Frame /\ Less(Num(now), flips[1].start_)

(* the style the element has when the tracked kinds show the delta:        *)
(* what invert() writes for it                                             *)
ShowsInverted(f, style) ==
  /\ f.updateTransform_ =>
       style.transform = [t |-> "translate-scale", x |-> f.invert_.x, y |-> f.invert_.y,
                          sx |-> f.invert_.sx, sy |-> f.invert_.sy]
  /\ f.updateOpacity_ => style.opacity = f.first_.opacity

FiniteDelta(f) ==
  IsFinite(f.invert_.x) /\ IsFinite(f.invert_.y) /\ IsFinite(f.invert_.sx) /\ IsFinite(f.invert_.sy)

(* what C17 has in common in both readings: start_ is the given start time *)
(* or else the clock, plus delay_; a frame below start_ completes nothing  *)
(* and requests one more frame; for a positive duration_ no frame below    *)
(* start_ + duration_ completes; and a frame completes exactly when its    *)
(* clamped time is not below 1, whatever the easing returns.               *)
StartAndLastFrame ==
  /\ \A t \in TimeArgs : Commit(play(World, 1, t), "play") => flips'[1].start_ = StartOf(t)
  /\ FrameBelowStart =>
       /\ FrameTime(flips[1]) = Zero
       /\ ~Completes
       /\ Len(raf') = Len(raf)
  /\ (/\ Frame
      /\ Less(Zero, flips[1].duration_)
      /\ Less(Num(now), Add(flips[1].start_, flips[1].duration_))) => ~Completes
  /\ Frame => (Completes <=> ~Less(FrameTime(flips[1]), One))

(* C17, as the spec has it: on every frame below start_ the element keeps  *)
(* the inverted state (taken here for finite deltas only).                 *)
C17_StartDelaysAnimation ==
  [][ /\ StartAndLastFrame
      /\ (FrameBelowStart /\ FiniteDelta(flips[1])) =>
           ShowsInverted(flips[1], els'[1].style) ]_vars

(* C17, as the code has it: on a frame below start_ the element shows the  *)
(* state of e = easing(0), which is the inverted state when easing(0) = 0  *)
(* and the delta is finite.                                                *)
C17_StartDelaysEasedAnimation ==
  [][ /\ StartAndLastFrame
      /\ FrameBelowStart =>
           LET f == flips[1]
               e == Ease(f.easing_, Zero)
               u == Sub(One, e)
           IN  /\ f.updateTransform_ =>
                    els'[1].style.transform =
                      [t |-> "translate-scale",
                       x |-> Mul(f.invert_.x, u), y |-> Mul(f.invert_.y, u),
                       sx |-> Add(f.invert_.sx, Mul(Sub(One, f.invert_.sx), e)),
                       sy |-> Add(f.invert_.sy, Mul(Sub(One, f.invert_.sy), e))]
               /\ f.updateOpacity_ =>
                    els'[1].style.opacity = Add(f.first_.opacity, Mul(f.invert_.a, e))
               /\ (e = Zero /\ FiniteDelta(f)) => ShowsInverted(f, els'[1].style) ]_vars

(* a frame has run below start_ (play(1) with the clock at 0) on the       *)
(* inverted worked example, and has left the inverted state                *)
C17_Witness ==
  /\ out.op = "frame"
  /\ now = 0
  /\ flips[1].start_ = One
  /\ flips[1].easing_ = Fn("quad")
  /\ flips[1].invert_.x = Num(-50)
  /\ els[1].style.transform = [t |-> "translate-scale", x |-> Num(-50), y |-> Num(-50),
                               sx |-> Frac(1, 2), sy |-> Frac(1, 2)]
  /\ Len(raf) = 1

(* the style update_ has applied on the frame of this step, before a       *)
(* completion clears it                                                    *)
Applied ==
  rAF_update_apply([World EXCEPT !.raf = Tail(raf)], 1, FrameTime(flips[1])).els[1].style

ClockPassed == ~Less(Num(now), Add(flips[1].start_, flips[1].duration_))

Started(p) == p <= Len(done) /\ done[p] = 0

(* play p has completed, none of its callbacks is pending and the helper   *)
(* is idle                                                                 *)
Completed(p) ==
  /\ p <= Len(done)
  /\ done[p] = 1
  /\ Pending(raf, p) = {}
  /\ AsConstructed(flips[1])
  /\ StyleCleared(els[1])

(* C19: with the rAF player, when every requested frame callback is        *)
(* delivered and the clock keeps reaching start_ + duration_, every        *)
(* play() is eventually followed by its completion, which leaves none of   *)
(* its frame callbacks pending and the helper idle; and no callback of a   *)
(* completed play() is ever pending.                                       *)
C19_PlayCompletes ==
  /\ []<>ClockPassed => \A p \in 1..MaxPlays : Started(p) ~> Completed(p)
  /\ [](\A p \in 1..Len(done) : done[p] = 1 => Pending(raf, p) = {})

(* a delayed play() has completed: play() at 0 with delay 1 and duration 1 *)
(* set start_ to 1, and the frame at 2 ran the completion routine          *)
C19_Witness ==
  /\ out.op = "frame"
  /\ now = 2
  /\ flips[1].start_ = One
  /\ flips[1].duration_ = One
  /\ Completed(1)
  /\ raf = <<>>

(* C25: the completion routine resets both snapshots and the delta         *)
(* whatever they hold and whichever play() it ends: when first() and       *)
(* last() have stored new snapshots while a play() of the rAF player was   *)
(* still running, the frame that completes that play() erases them, and    *)
(* an invert() called next throws the missing-first() error and changes    *)
(* nothing.                                                                *)
C25_CompletionErasesNewSnapshots ==
  [][ /\ Completes =>
           /\ flips'[1].first_ = NewSnapshot
           /\ flips'[1].last_ = NewSnapshot
           /\ flips'[1].invert_ = NewInvert
           /\ LET w == invert(World', 1)
              IN  w.err = NoFirst /\ w.flips = flips' /\ w.els = els'
      /\ (out'.op = "invert" /\ Invert(1) /\ flips[1].first_ = NewSnapshot) =>
           /\ out'.err = NoFirst
           /\ flips' = flips ]_vars

(* the play() of the worked example is still running (a frame has written  *)
(* the state of e = 1/4, its callback is pending, the clock has reached    *)
(* start_ + duration_) and first() and last() have since stored the        *)
(* snapshots of another pose: the next frame completes and erases them     *)
C25_Witness ==
  /\ out.op = "last"
  /\ done = <<0>>
  /\ Len(raf) = 1
  /\ FrameTime(flips[1]) = One
  /\ flips[1].invert_.x = Num(-50)
  /\ els[1].style.opacity = Frac(7, 8)
  /\ flips[1].first_ = PoseSnapshot(3)
  /\ flips[1].last_ = PoseSnapshot(3)

(* the new snapshots are gone: invert() has thrown for the missing first   *)
(* snapshot after the one play() has completed                             *)
C25_WitnessThrown ==
  /\ out.op = "invert"
  /\ out.err = NoFirst
  /\ plays = 1
  /\ done = <<1>>
  /\ raf = <<>>
  /\ flips[1].last_ = NewSnapshot
  /\ StyleCleared(els[1])

PositiveFinite(a) == IsFinite(a) /\ Less(Zero, a)

(* C21: after every successful invert() both scale components of the      *)
(* delta are strictly positive finite numbers, whatever the two snapshots  *)
(* hold, an element measured with zero width or height included.           *)
C21_ScalePositiveFinite ==
  Inverted => (PositiveFinite(flips[1].invert_.sx) /\ PositiveFinite(flips[1].invert_.sy))

(* C21, as the code has it: each scale is the quotient first / last of the *)
(* measured sizes, positive and finite when both sizes are positive, 0     *)
(* when only the first is zero, Infinity when only the last is zero and    *)
(* NaN when both are.                                                      *)
C21_ScaleIsTheQuotient ==
  Inverted =>
    LET f == flips[1]
        Quotient(s, a, b) ==
          IF a # Zero /\ b # Zero THEN PositiveFinite(s) /\ Mul(s, b) = a
          ELSE IF b # Zero THEN s = Zero
          ELSE IF a # Zero THEN s = Infinity
          ELSE s = NaN
    IN  /\ Quotient(f.invert_.sx, f.first_.layout.width, f.last_.layout.width)
        /\ Quotient(f.invert_.sy, f.first_.layout.height, f.last_.layout.height)

-----------------------------------------------------------------------------
(* Properties of one helper with the CSS player (SpecCSS).                 *)

(* C6: with the CSS player the cleanup of each play() runs at most once,   *)
(* whatever transition events reach the element afterwards.                *)
C6_CleanupOnce == \A p \in 1..Len(done) : done[p] <= 1

(* the registered listeners an event of this type runs on its own target  *)
ListenersFor(type) == SelectSeq(els[1].listeners, LAMBDA l : l.type = type)

(* C20: with the CSS player a transitionstart, transitionend or            *)
(* transitioncancel event whose target is a descendant of the element      *)
(* runs no handler and removes no listener: it leaves the helper, the      *)
(* element, the frame queue and the completion counts as they are; an      *)
(* event whose target is the element itself runs every listener of its     *)
(* type once (the cleanup of each play() that still listens for it, or the *)
(* start handler) and removes exactly those listeners.                     *)
C20_OtherTargetIgnored ==
  [][ \A type \in TransitionEvents :
        /\ (out'.op = type /\ EventOf(1, type, Descendant(1))) =>
             UNCHANGED <<flips, els, raf, plays, done, signals>>
        /\ (out'.op = type /\ EventOf(1, type, El(1))) =>
             /\ els'[1].listeners = SelectSeq(els[1].listeners, LAMBDA l : l.type # type)
             /\ \A p \in 1..Len(done) :
                  done'[p] = done[p] + Len(SelectSeq(ListenersFor(type),
                                                    LAMBDA l : l.h # "start" /\ l.p = p))
             /\ (type = "transitionstart" /\ ListenersFor(type) # <<>>) =>
                  flips'[1].start_ = Num(now) ]_vars

(* a transitionend has reached the element while the transition of the     *)
(* first play() runs, and all three listeners are still registered: its    *)
(* target was the descendant                                               *)
C20_Witness ==
  /\ out.op = "transitionend"
  /\ plays = 1
  /\ done = <<0>>
  /\ Len(els[1].listeners) = 3
  /\ "flip-animating" \in els[1].classList
  /\ flips[1].invert_.x = Num(-50)

(* C11: play_ of the CSS player throws its own error exactly when easing_  *)
(* is a function, and then sets no style, registers no listener and        *)
(* requests no frame; otherwise it sets the four transition properties,    *)
(* the timing function being the cubic-bezier form of an array easing_ and *)
(* a string easing_ as it is, registers its three listeners and requests   *)
(* one frame.                                                              *)
C11_FunctionEasingRejected ==
  [][ Play(1) =>
        LET f == flips[1]
        IN  IF IsFunction(f.easing_)
              THEN /\ out'.err = "The CSS player does not support passing easing as a function."
                   /\ els' = els
                   /\ raf' = raf
                   /\ flips' = flips
              ELSE /\ out'.err = None
                   /\ els'[1].style.transitionTimingFunction =
                        (IF IsArray(f.easing_) THEN [t |-> "string", bezier |-> f.easing_.v]
                         ELSE f.easing_)
                   /\ IsString(els'[1].style.transitionTimingFunction)
                   /\ els'[1].style.transitionDuration = [t |-> "ms", v |-> f.duration_]
                   /\ els'[1].style.transitionDelay = [t |-> "ms", v |-> f.delay_]
                   /\ Len(els'[1].listeners) = Len(els[1].listeners) + 3
                   /\ Len(raf') = Len(raf) + 1 ]_vars

(* play() has thrown on the helper whose easing_ is the default function *)
C11_Witness ==
  /\ out.op = "play"
  /\ out.err = "The CSS player does not support passing easing as a function."
  /\ IsFunction(flips[1].easing_)
  /\ els[1].listeners = <<>>
  /\ raf = <<>>

(* play() has converted the control points [0,0,1,1] *)
C11_WitnessBezier ==
  /\ out.op = "play"
  /\ out.err = None
  /\ els[1].style.transitionTimingFunction = [t |-> "string", bezier |-> <<0, 0, 1, 1>>]
  /\ flips[1].easing_ = els[1].style.transitionTimingFunction

-----------------------------------------------------------------------------
(* Properties of one helper on a page that listens (SpecSignal).           *)

TheListener == [type |-> "flipComplete", h |-> "onFlipComplete", p |-> 0]
Listening == \E k \in 1..Len(els[1].listeners) : els[1].listeners[k] = TheListener

(* C14: a flipComplete event is a bubbling, cancelable event, and what its *)
(* listeners find is the helper with both snapshots and the delta reset    *)
(* and the element with transformOrigin, transform, opacity and willChange *)
(* unset; and the cycle a listener starts from inside is not undone by the *)
(* rest of the completion: when the frame's callback returns, the new      *)
(* snapshots, delta and styles are in place and the new play() has its     *)
(* frame requested.                                                        *)
C14_SignalAfterReset ==
  /\ [](heard # Undefined =>
          /\ heard.evt = [type |-> "flipComplete", detail |-> Null,
                          bubbles |-> TRUE, cancelable |-> TRUE]
          /\ heard.flip.first_ = NewSnapshot
          /\ heard.flip.last_ = NewSnapshot
          /\ heard.flip.invert_ = NewInvert
          /\ heard.style.transformOrigin = Unset
          /\ heard.style.transform = Unset
          /\ heard.style.opacity = Unset
          /\ heard.style.willChange = Unset)
  /\ [][ (Frame /\ Listening /\ signals' # signals) =>
           /\ out'.err = None
           /\ ~Listening'
           /\ flips'[1].first_.layout =
                [Poses[1].rect EXCEPT !.left = Num(SumShift(els[1].classList))]
           /\ flips'[1].last_.layout =
                [Poses[1].rect EXCEPT !.left = Num(SumShift(els[1].classList \cup {"a"}))]
           /\ flips'[1].invert_ =
                [NewInvert EXCEPT !.x = IF "a" \in els[1].classList THEN Zero ELSE Num(-1)]
           /\ els'[1].style.willChange # Unset
           /\ plays' = plays + 1
           /\ done'[plays'] = 0
           /\ \E k \in 1..Len(raf') : raf'[k].p = plays' ]_vars

(* the listener has heard the first completion and started the next cycle, *)
(* which a later frame has completed                                       *)
C14_Witness ==
  /\ heard # Undefined
  /\ signals[1] = 2
  /\ done = <<1, 1>>
  /\ "a" \in els[1].classList
  /\ ~Listening
  /\ out.op = "frame"

-----------------------------------------------------------------------------
(* Properties of one helper that is not played (SpecSnap).                 *)

(* C13: last(c) with a string c adds c to the class list and then          *)
(* measures, so that last_ is the rectangle and opacity of the element     *)
(* with c on it; last() measures with the class list as it is; either way  *)
(* first_, invert_ and the inline style stay as they were.                 *)
C13_LastMeasuresWithClass ==
  [][ \A k \in {2, 3}, c \in LastArgs : LastWith(1, k, c) =>
        LET classes == IF IsString(c) THEN els[1].classList \cup {c.v} ELSE els[1].classList
        IN  /\ els'[1].classList = classes
            /\ flips'[1].last_ =
                 [layout |-> [Poses[k].rect EXCEPT !.left = Add(@, Num(SumShift(classes)))],
                  opacity |-> Poses[k].opacity]
            /\ flips'[1].first_ = flips[1].first_
            /\ flips'[1].invert_ = flips[1].invert_
            /\ els'[1].style = els[1].style ]_vars

(* last('end') after first() and invert(): the rectangle is the one the    *)
(* class gives (left 50 + 8), the first snapshot and the delta are kept    *)
C13_Witness ==
  /\ out.op = "last"
  /\ els[1].classList = {"end"}
  /\ flips[1].last_.layout = [Poses[2].rect EXCEPT !.left = Num(58)]
  /\ flips[1].first_.layout = Poses[1].rect
  /\ flips[1].invert_.x = Num(-50)

(* C16: a successful invert() writes transformOrigin and transform (the    *)
(* translate and scale of the new delta) only when transform is tracked,   *)
(* opacity (that of first_) only when opacity is tracked, and willChange   *)
(* to the list of the tracked kinds, unset when there is none; the style   *)
(* properties of a kind that is not tracked keep their value.              *)
C16_InvertWritesTrackedOnly ==
  [][ (Invert(1) /\ out'.err = None) =>
        LET f   == flips'[1]
            inv == f.invert_
            old == els[1].style
            new == els'[1].style
        IN  /\ f.updateTransform_ =>
                 /\ new.transformOrigin = Str("0 0")
                 /\ new.transform = [t |-> "translate-scale", x |-> inv.x, y |-> inv.y,
                                     sx |-> inv.sx, sy |-> inv.sy]
            /\ ~f.updateTransform_ =>
                 /\ new.transformOrigin = old.transformOrigin
                 /\ new.transform = old.transform
            /\ new.opacity = (IF f.updateOpacity_ THEN f.first_.opacity ELSE old.opacity)
            /\ new.willChange =
                 (CASE f.updateTransform_ /\ f.updateOpacity_ -> [t |-> "list", v |-> <<"transform", "opacity">>]
                    [] f.updateTransform_ /\ ~f.updateOpacity_ -> [t |-> "list", v |-> <<"transform">>]
                    [] ~f.updateTransform_ /\ f.updateOpacity_ -> [t |-> "list", v |-> <<"opacity">>]
                    [] OTHER -> Unset)
            /\ \A k \in {"transitionProperty", "transitionTimingFunction",
                          "transitionDuration", "transitionDelay"} : new[k] = old[k] ]_vars

(* invert() on a helper that tracks opacity only: the author's transform   *)
(* is still there, opacity is that of the first snapshot                   *)
C16_Witness ==
  /\ out.op = "invert"
  /\ out.err = None
  /\ ~flips[1].updateTransform_
  /\ flips[1].updateOpacity_
  /\ els[1].style.transform = Str("rotate(5deg)")
  /\ els[1].style.transformOrigin = Str("50% 50%")
  /\ els[1].style.opacity = One
  /\ els[1].style.willChange = [t |-> "list", v |-> <<"opacity">>]

(* invert() on a helper that tracks nothing: will-change is unset *)
C16_WitnessNone ==
  /\ out.op = "invert"
  /\ out.err = None
  /\ ~flips[1].updateTransform_
  /\ ~flips[1].updateOpacity_
  /\ els[1].style = [Styled EXCEPT !.willChange = Unset]
  /\ flips[1].invert_.x = Num(-50)

-----------------------------------------------------------------------------
(* Properties of one helper with the GSAP player (SpecGSAP).               *)

(* the engine of the tween that the step has created, if it has *)
Tweened(engine) ==
  /\ out'.err = None
  /\ Len(raf') = Len(raf) + 1
  /\ raf'[Len(raf')].engine = engine

(* C12: play_ of the GSAP player hands the tween to TweenMax when the page *)
(* has it, else to TweenLite when the page has that, and throws 'GSAP      *)
(* requested, but TweenMax/Lite not available.' exactly when the page has  *)
(* neither.                                                                *)
C12_EngineChoice ==
  [][ \A h \in Hosts, t \in TimeArgs : PlayOn(1, h, t) =>
        IF "TweenMax" \in h THEN Tweened("TweenMax")
        ELSE IF "TweenLite" \in h THEN Tweened("TweenLite")
        ELSE /\ out'.err = "GSAP requested, but TweenMax/Lite not available."
             /\ raf' = raf ]_vars

(* what play_ does instead: TweenMax when the page has it, and otherwise   *)
(* the ReferenceError of reading TweenMax                                  *)
C12_TweenMaxOrReferenceError ==
  [][ \A h \in Hosts, t \in TimeArgs : PlayOn(1, h, t) =>
        IF "TweenMax" \in h THEN Tweened("TweenMax")
        ELSE /\ out'.err = "ReferenceError: TweenMax is not defined"
             /\ raf' = raf ]_vars

-----------------------------------------------------------------------------
(* Properties of the group coordinator (SpecGroup).                        *)

(* the classes last(c) is to add to member i *)
ClassesOf(c, i) ==
  IF IsString(c) THEN {c.v}
  ELSE IF IsArray(c) /\ i <= Len(c.v) /\ IsString(c.v[i]) THEN {c.v[i].v}
  ELSE {}

(* C7: group last(c) adds the class to every member (a scalar c to all, an *)
(* array entry to the member of its index, nothing for an undefined entry) *)
(* before it measures any member: every member's last snapshot is the      *)
(* rectangle the page renders with all those classes in place.             *)
C7_ClassesBeforeMeasuring ==
  [][ \A c \in GroupClassArgs : (out'.op = "group.last" /\ GroupLastWith(c)) =>
        \A i \in 1..Len(flips) :
          /\ els'[i].classList = els[i].classList \cup ClassesOf(c, i)
          /\ \E pg \in Pages :
               LET after == [World EXCEPT !.els = els', !.page = pg]
               IN  flips'[i].last_ = [layout |-> getBoundingClientRect(after, i),
                                      opacity |-> getComputedOpacity(after, i)] ]_vars

(* last(['a','b','c']) on three bare members: member 1 is measured with    *)
(* 'a' on itself (left + 1) and 'b' and 'c' on the others (top + 2 + 4)    *)
C7_Witness ==
  /\ out.op = "group.last"
  /\ els[1].classList = {"a"}
  /\ els[2].classList = {"b"}
  /\ els[3].classList = {"c"}
  /\ flips[1].last_.layout.left = Num(1)
  /\ flips[1].last_.layout.top = Num(6)
  /\ flips[3].last_.layout.top = Num(20 + 1 + 2)

(* C8: group play(t) hands one start time to every member, t when it is    *)
(* given and else a single reading of the clock, so that each member of    *)
(* the rAF player starts at that time plus its own delay.                  *)
C8_SharedStartTime ==
  [][ \A t \in TimeArgs : (out'.op = "group.play" /\ GroupPlayWith(t)) =>
        LET shared == IF t = Undefined THEN Num(now) ELSE t
        IN  /\ out'.err = None
            /\ out'.reads = (IF t = Undefined THEN 1 ELSE 0)
            /\ plays' = plays + Len(flips)
            /\ \A i \in 1..Len(flips) :
                 /\ flips'[i].start_ = Add(shared, flips[i].delay_)
                 /\ \E k \in Len(raf) + 1..Len(raf') : raf'[k].i = i ]_vars

(* play() with no start time: the members, of delays 0, 1 and 2, start at  *)
(* the one clock reading plus 0, 1 and 2                                   *)
C8_Witness ==
  /\ out.op = "group.play"
  /\ out.reads = 1
  /\ flips[1].start_ = Num(now)
  /\ flips[2].start_ = Num(now + 1)
  /\ flips[3].start_ = Num(now + 2)
  /\ Len(raf) = 3

(* the calls of a group and the method each hands to its members          *)
GroupMethod ==
  [x \in {"group.first", "group.last", "group.invert", "group.play",
          "group.addClass", "group.removeClass"} |->
     CASE x = "group.first" -> "first" [] x = "group.last" -> "last"
       [] x = "group.invert" -> "invert" [] x = "group.play" -> "play"
       [] x = "group.addClass" -> "addClass" [] OTHER -> "removeClass"]

(* the members on which the last call invoked the method, in order         *)
MembersCalled(method) ==
  LET sel == SelectSeq(out.calls, LAMBDA c : c.method = method)
  IN  [k \in 1..Len(sel) |-> sel[k].member]

(* the group holds one helper for each configuration, in their order       *)
MembersAsGiven ==
  /\ Len(flips) = Len(GroupOptions)
  /\ \A i \in 1..Len(flips) :
       LET made == FLIP(players_, GroupOptions[i]).flip
       IN  /\ flips[i].element_ = GroupOptions[i].element
           /\ flips[i].duration_ = made.duration_
           /\ flips[i].delay_ = made.delay_
           /\ flips[i].updateTransform_ = made.updateTransform_
           /\ flips[i].bound = made.bound

-----------------------------------------------------------------------------
(* Properties of the registry and the constructor (SpecRegistry).          *)

Registered(reg) == IF reg = Undefined THEN {} ELSE DOMAIN reg

ElementErrors == {"Element must be provided."}
EasingErrors  == {"Easing function must be provided.",
                  "TypeError: cannot read property getRatio"}
PlayerErrors  == {"Unknown player type",
                  "TypeError: cannot read property of undefined players_"}

(* neither a function nor an object with a getRatio member *)
BadEasing(e) == ~IsFunction(e) /\ (e \in {Undefined, Null} \/ Member(e, "getRatio") = Undefined)

(* C9: new FLIP() throws, and yields no helper, when the element is        *)
(* missing, when the easing is neither a function nor an object with a     *)
(* getRatio member, and when the player's name is not registered, checked  *)
(* in that order; any other configuration yields a helper carrying every   *)
(* function of the named player.                                           *)
C9_ConstructionChecks ==
  [][ \A o \in AllOptions : Construct(o) =>
        LET config == Assign(defaults, o)
        IN  IF "element" \notin DOMAIN config
              THEN out'.err \in ElementErrors /\ flips' = flips
            ELSE IF BadEasing(config.easing)
              THEN out'.err \in EasingErrors /\ flips' = flips
            ELSE IF config.play \notin Registered(players_)
              THEN out'.err \in PlayerErrors /\ flips' = flips
            ELSE /\ out'.err = None
                 /\ Len(flips') = 1
                 /\ flips'[1].element_ = config.element
                 /\ DOMAIN flips'[1].bound = players_[config.play].keys ]_vars

(* C9 again, for the names that Object.prototype does not answer to: there *)
(* the constructor does check as described.                                *)
C9_ConstructionChecksOwnNames ==
  [][ \A o \in AllOptions : Construct(o) =>
        LET config == Assign(defaults, o)
        IN  IF "element" \notin DOMAIN config
              THEN out'.err \in ElementErrors /\ flips' = flips
            ELSE IF BadEasing(config.easing)
              THEN out'.err \in EasingErrors /\ flips' = flips
            ELSE IF config.play \in InheritedNames
              THEN TRUE
            ELSE IF config.play \notin Registered(players_)
              THEN out'.err \in PlayerErrors /\ flips' = flips
            ELSE /\ out'.err = None
                 /\ Len(flips') = 1
                 /\ flips'[1].element_ = config.element
                 /\ DOMAIN flips'[1].bound = players_[config.play].keys ]_vars

(* C10: extend(name, player) always registers: afterwards the registry     *)
(* maps name to that player and every other name to what it mapped to      *)
(* before, with a warning when the name was taken and one when the player  *)
(* has no play_; and no step ever takes a name out of the registry.        *)
C10_ExtendRegisters ==
  [][ /\ Registered(players_) \subseteq Registered(players_')
      /\ \A name \in ExtendNames, player \in Players : Extend(name, player) =>
           /\ Registered(players_') = Registered(players_) \cup {name}
           /\ players_'[name] = player
           /\ \A other \in Registered(players_) \ {name} : players_'[other] = players_[other]
           /\ name \in Registered(players_) => warnings' > warnings
           /\ "play_" \notin player.keys => warnings' > warnings ]_vars

(* 'rAF' has been registered twice, the second time with a player that has *)
(* no play_, next to another name                                          *)
C10_Witness ==
  /\ out.op = "extend"
  /\ players_ # Undefined
  /\ DOMAIN players_ = {"rAF", "custom"}
  /\ players_["rAF"] = CustomPlayer
  /\ players_["custom"] = rAFPlayer
  /\ warnings = 2

(* C15: a player without play_ that is registered under a name can be      *)
(* named at construction: new FLIP() throws nothing and the helper has no  *)
(* play_; play() on a helper without play_ throws 'No player specified.'   *)
(* and changes neither the helper (snapshots, delta) nor the element nor   *)
(* the frame queue.                                                        *)
C15_NoPlayerSpecified ==
  [][ /\ \A o \in NoPlayOptions :
           (/\ Construct(o)
            /\ "element" \in DOMAIN o
            /\ ~BadEasing(Assign(defaults, o).easing)
            /\ Assign(defaults, o).play \in Registered(players_)
            /\ "play_" \notin players_[Assign(defaults, o).play].keys)
           => /\ out'.err = None
              /\ Len(flips') = 1
              /\ "play_" \notin DOMAIN flips'[1].bound
      /\ (flips # <<>> /\ Play(1) /\ "play_" \notin DOMAIN flips[1].bound)
           => /\ out'.err = "No player specified."
              /\ flips' = flips
              /\ els' = els
              /\ raf' = raf
              /\ plays' = plays ]_vars

(* play() has thrown on a helper of the player without play_, after        *)
(* first(), last() and invert()                                            *)
C15_Witness ==
  /\ out.op = "play"
  /\ out.err = "No player specified."
  /\ flips # <<>>
  /\ flips[1].bound = [update_ |-> "custom"]
  /\ flips[1].invert_.x = Num(-50)
  /\ els[1].style.willChange # Unset
  /\ raf = <<>>

-----------------------------------------------------------------------------
(* Properties of the CSS player under each kind of easing (SpecEasing).    *)

FunctionEasingError == "The CSS player does not support passing easing as a function."

TransitionUnset(e) ==
  /\ e.style.transitionProperty = Unset
  /\ e.style.transitionTimingFunction = Unset
  /\ e.style.transitionDuration = Unset
  /\ e.style.transitionDelay = Unset

-----------------------------------------------------------------------------
(* Properties of the binding of player functions (SpecBinding).            *)

(* the functions of the player registered under name, as new FLIP() binds  *)
(* them                                                                    *)
BoundFrom(reg, name) == [fn \in reg[name].keys |-> reg[name].id]

(* C24: new FLIP() binds the functions of the player registered under the  *)
(* given name at that moment; no later extend(), construction or play()    *)
(* changes what a helper has bound; and play() on a helper runs the play_  *)
(* it has bound (the rAF one requests update_ and touches no style, the    *)
(* CSS one registers its listeners and requests its own frame callback),   *)
(* whatever the registry holds by then and whatever the other helper       *)
(* has bound.                                                              *)
C24_BoundAtConstruction ==
  [][ /\ \A i \in 1..Len(flips) : i <= Len(flips') /\ flips'[i].bound = flips[i].bound
      /\ \A name \in BindNames : (out'.op = "new" /\ ConstructNext(name)) =>
           flips'[Len(flips')].bound = BoundFrom(players_, name)
      /\ (out'.op = "extend" /\ Register) => UNCHANGED <<flips, els, raf>>
      /\ \A i \in 1..Len(flips) : (out'.op = "play" /\ PlayMember(i)) =>
           /\ out'.err = None
           /\ Len(raf') = Len(raf) + 1
           /\ raf'[Len(raf')].i = i
           /\ \A j \in 1..Len(flips) : j # i => (flips'[j] = flips[j] /\ els'[j] = els[j])
           /\ IF flips[i].bound["play_"] = "rAF"
                THEN /\ raf'[Len(raf')].fn = "update_"
                     /\ els' = els
                ELSE /\ raf'[Len(raf')].fn = "CSS.frame"
                     /\ Len(els'[i].listeners) = Len(els[i].listeners) + 3
                     /\ flips'[i].start_ = flips[i].start_ ]_vars

(* the first helper was built when 'a' named the rAF player and the second *)
(* when a name had come to name another player; 'a' now names the CSS      *)
(* player, and play() on the first helper has requested update_            *)
C24_Witness ==
  /\ out.op = "play"
  /\ Len(flips) = 2
  /\ players_["a"] = CSSPlayer
  /\ players_["b"] = CSSPlayer
  /\ warnings > 0
  /\ flips[1].bound = [update_ |-> "rAF", play_ |-> "rAF"]
  /\ flips[2].bound = [play_ |-> "CSS"]
  /\ raf # <<>>
  /\ raf[Len(raf)] = [fn |-> "update_", i |-> 1, p |-> plays]
  /\ els[1].listeners = <<>>

-----------------------------------------------------------------------------
(* Properties of the helper on a styled element (SpecCard).                *)

(* some play() of the helper has completed                                 *)
SomeDone == \E p \in 1..Len(done) : done[p] > 0

(* C26: the completion routine unsets transform-origin, transform, opacity *)
(* and will-change whichever kinds the helper tracks; so on the element    *)
(* that carried the author's inline styles, the transform and its origin   *)
(* of a helper that does not track transform (the opacity of one that does *)
(* not track opacity) are the author's, untouched by invert() and by the   *)
(* frames, until the first completion, and unset from then on.             *)
C26_CompletionUnsetsUntracked ==
  /\ [][ Completes => StyleCleared(els'[1]) ]_vars
  /\ []("card" \in els[1].classList =>
          /\ ~flips[1].updateTransform_ =>
               /\ els[1].style.transform = (IF SomeDone THEN Unset ELSE Styled.transform)
               /\ els[1].style.transformOrigin =
                    (IF SomeDone THEN Unset ELSE Styled.transformOrigin)
          /\ ~flips[1].updateOpacity_ =>
               els[1].style.opacity = (IF SomeDone THEN Unset ELSE Styled.opacity))

(* the cycle of a helper that tracks opacity only has completed on the     *)
(* card: the author's transform is gone                                    *)
C26_Witness ==
  /\ out.op = "frame"
  /\ done = <<1>>
  /\ "card" \in els[1].classList
  /\ ~flips[1].updateTransform_
  /\ flips[1].updateOpacity_
  /\ els[1].style.transform = Unset
  /\ els[1].style.transformOrigin = Unset
  /\ raf = <<>>

=========================================================================
